---- MODULE Spec2Model ----
(***************************************************************************)
(* Registry Manager: the .reg parser (reg_parser.py), the serializer       *)
(* (reg_creator.py) and the status checker (status_checker.py).            *)
(*                                                                         *)
(* A Python str is a sequence of symbols.  A symbol is one character, or   *)
(* a word (a hive name, a value name, the words of the version header)     *)
(* none of whose characters any rule of the code looks at one by one; a    *)
(* word is never split.  A Python object is a record [kind, int, seq];     *)
(* an optional object is <<>> (None) or <<x>>.                             *)
(***************************************************************************)
EXTENDS Integers, Sequences, FiniteSets, TLC

VARIABLES
    pc,             \* position of the caller
    registry_data,  \* the serializer's input document
    content,        \* the .reg text
    lines,          \* parse_content: content.splitlines()
    line_number,    \* parse_content: number of the line read last
    current_key,    \* parse_content: the open key context, None or a path
    result,         \* parse_content: the document under construction
    todo,           \* check_file_status: key paths still to check, in order
    status_result,  \* check_file_status: the report under construction
    live,           \* what the live registry has answered so far
    calls,          \* the parse_content calls that have returned: text, document
    reg_files,      \* the number of .reg files of the collection, in glob order
    timer,          \* a callback _background_status_check is pending
    checked,        \* the files passed to check_file_status, with the outcome
    filepath,       \* check_file_status: the path or "embedded:" id asked for
    db_instance,    \* check_file_status: None or the embedded texts by id
    files,          \* the file system: what open() answers for a path
    metadata,       \* RegistryBackupManager: self.metadata["backups"]
    backup_dir,     \* RegistryBackupManager: the directories under backup_dir
    now,            \* the clock, in seconds
    created         \* the create_backup calls that returned an id: id, file

vars == <<pc, registry_data, content, lines, line_number, current_key,
          result, todo, status_result, live, calls, reg_files, timer, checked,
          filepath, db_instance, files, metadata, backup_dir, now, created>>

(***************************************************************************)
(* Bounds of the model.                                                    *)
(***************************************************************************)
MaxLines == 3
MaxCheckLines == 3

(***************************************************************************)
(* Python values.                                                          *)
(***************************************************************************)
None == <<>>
Some(x) == <<x>>

PyNone == [kind |-> "None", int |-> 0, seq |-> <<>>]
PyInt(n) == [kind |-> "int", int |-> n, seq |-> <<>>]
PyStr(s) == [kind |-> "str", int |-> 0, seq |-> s]
PyBytes(b) == [kind |-> "bytes", int |-> 0, seq |-> b]
PyInts(l) == [kind |-> "ints", int |-> 0, seq |-> l]
PyStrs(l) == [kind |-> "strs", int |-> 0, seq |-> l]

Q == "\""
BS == "\\"
NL == "\n"

Whitespace == {" ", "\t"}

Min(a, b) == IF a <= b THEN a ELSE b

\* s[a:b] of Python for 0 <= a, 0 <= b
Slice(s, a, b) == SubSeq(s, a + 1, Min(b, Len(s)))
\* s[a:] of Python for 0 <= a
From(s, a) == SubSeq(s, a + 1, Len(s))

StartsWith(s, p) == Len(p) <= Len(s) /\ SubSeq(s, 1, Len(p)) = p
EndsWith(s, p) == Len(p) <= Len(s) /\ SubSeq(s, Len(s) - Len(p) + 1, Len(s)) = p

RECURSIVE LStrip(_, _)
LStrip(s, chars) ==
    IF s # <<>> /\ Head(s) \in chars THEN LStrip(Tail(s), chars) ELSE s

RECURSIVE RStrip(_, _)
RStrip(s, chars) ==
    IF s # <<>> /\ s[Len(s)] \in chars
    THEN RStrip(SubSeq(s, 1, Len(s) - 1), chars) ELSE s

Strip(s) == RStrip(LStrip(s, Whitespace), Whitespace)

\* s.replace(old, new), old not empty: leftmost, non-overlapping
RECURSIVE Replace(_, _, _)
Replace(s, old, new) ==
    IF s = <<>> THEN <<>>
    ELSE IF StartsWith(s, old) THEN new \o Replace(From(s, Len(old)), old, new)
    ELSE <<Head(s)>> \o Replace(Tail(s), old, new)

\* s.split(sep) for a one-symbol sep: always at least one piece
RECURSIVE Split(_, _)
Split(s, sep) ==
    IF \A i \in 1..Len(s) : s[i] # sep THEN <<s>>
    ELSE LET i == CHOOSE j \in 1..Len(s) :
                      s[j] = sep /\ \A k \in 1..(j - 1) : s[k] # sep
         IN  <<SubSeq(s, 1, i - 1)>> \o Split(From(s, i), sep)

\* sep.join(pieces)
RECURSIVE Join(_, _)
Join(pieces, sep) ==
    IF pieces = <<>> THEN <<>>
    ELSE IF Len(pieces) = 1 THEN pieces[1]
    ELSE pieces[1] \o sep \o Join(Tail(pieces), sep)

\* content.splitlines(), for the line break "\n": no empty last line
splitlines(s) ==
    IF s = <<>> THEN <<>>
    ELSE LET ps == Split(s, NL)
         IN  IF ps[Len(ps)] = <<>> THEN SubSeq(ps, 1, Len(ps) - 1) ELSE ps

\* index of the first c in s at or after position from (1-based), 0 if none
FirstIndex(s, c, from) ==
    IF \E i \in from..Len(s) : s[i] = c
    THEN CHOOSE i \in from..Len(s) : s[i] = c /\ \A k \in from..(i - 1) : s[k] # c
    ELSE 0

(***************************************************************************)
(* Numbers in text.                                                        *)
(***************************************************************************)
HexLower == <<"0", "1", "2", "3", "4", "5", "6", "7", "8", "9",
              "a", "b", "c", "d", "e", "f">>
HexUpper == <<"0", "1", "2", "3", "4", "5", "6", "7", "8", "9",
              "A", "B", "C", "D", "E", "F">>

IsHexDigit(c) == \E i \in 1..16 : HexLower[i] = c \/ HexUpper[i] = c
HexDigitValue(c) == (CHOOSE i \in 1..16 : HexLower[i] = c \/ HexUpper[i] = c) - 1

RECURSIVE HexValue(_)
HexValue(s) ==
    IF s = <<>> THEN 0
    ELSE 16 * HexValue(SubSeq(s, 1, Len(s) - 1)) + HexDigitValue(s[Len(s)])

\* int(s, 16): [ok, value]; ValueError is ok = FALSE.  Python also accepts a
\* sign, a 0x prefix and single underscores; no text of the model has them.
Int16(s) ==
    LET t == Strip(s)
    IN  IF t # <<>> /\ \A i \in 1..Len(t) : IsHexDigit(t[i])
        THEN [ok |-> TRUE, value |-> HexValue(t)]
        ELSE [ok |-> FALSE, value |-> 0]

RECURSIVE HexDigits(_)
HexDigits(n) ==
    IF n < 16 THEN <<HexLower[n + 1]>>
    ELSE HexDigits(n \div 16) \o <<HexLower[(n % 16) + 1]>>

RECURSIVE Zeros(_)
Zeros(n) == IF n <= 0 THEN <<>> ELSE <<"0">> \o Zeros(n - 1)

\* f"{n:0{width}x}" for n >= 0
FormatHex(n, width) ==
    LET d == HexDigits(n) IN Zeros(width - Len(d)) \o d

RECURSIVE DecDigits(_)
DecDigits(n) ==
    IF n < 10 THEN <<HexLower[n + 1]>>
    ELSE DecDigits(n \div 10) \o <<HexLower[(n % 10) + 1]>>

(***************************************************************************)
(* reg_parser.py: the patterns of RegFileParser.__init__.                  *)
(***************************************************************************)
NoMatch == [match |-> FALSE, group1 |-> <<>>, group2 |-> <<>>]

\* ^\[([^\]]+)\]$
key_pattern(line) ==
    IF /\ Len(line) >= 3
       /\ line[1] = "["
       /\ line[Len(line)] = "]"
       /\ \A i \in 2..(Len(line) - 1) : line[i] # "]"
    THEN [match |-> TRUE, group1 |-> SubSeq(line, 2, Len(line) - 1), group2 |-> <<>>]
    ELSE NoMatch

\* ^\[-([^\]]+)\]$
delete_key_pattern(line) ==
    IF /\ Len(line) >= 4
       /\ line[1] = "["
       /\ line[2] = "-"
       /\ line[Len(line)] = "]"
       /\ \A i \in 3..(Len(line) - 1) : line[i] # "]"
    THEN [match |-> TRUE, group1 |-> SubSeq(line, 3, Len(line) - 1), group2 |-> <<>>]
    ELSE NoMatch

\* ^"([^"]*)"=(.+)$
value_pattern(line) ==
    LET j == FirstIndex(line, Q, 2)
    IN  IF /\ Len(line) >= 4
           /\ line[1] = Q
           /\ j > 0
           /\ Len(line) >= j + 2
           /\ line[j + 1] = "="
        THEN [match |-> TRUE, group1 |-> SubSeq(line, 2, j - 1),
              group2 |-> SubSeq(line, j + 2, Len(line))]
        ELSE NoMatch

\* ^@=(.+)$
default_value_pattern(line) ==
    IF Len(line) >= 3 /\ line[1] = "@" /\ line[2] = "="
    THEN [match |-> TRUE, group1 |-> SubSeq(line, 3, Len(line)), group2 |-> <<>>]
    ELSE NoMatch

(***************************************************************************)
(* reg_parser.py: RegFileParser._get_reg_type_from_code, _parse_value.     *)
(***************************************************************************)
LowerChar(c) ==
    IF \E i \in 11..16 : HexUpper[i] = c
    THEN HexLower[CHOOSE i \in 11..16 : HexUpper[i] = c]
    ELSE c

Lower(s) == [i \in 1..Len(s) |-> LowerChar(s[i])]

_get_reg_type_from_code(type_code) ==
    LET c == Lower(type_code)
    IN  CASE c = <<"0">> -> "REG_NONE"
          [] c = <<"1">> -> "REG_SZ"
          [] c = <<"2">> -> "REG_EXPAND_SZ"
          [] c = <<"3">> -> "REG_BINARY"
          [] c = <<"4">> -> "REG_DWORD"
          [] c = <<"5">> -> "REG_DWORD_BIG_ENDIAN"
          [] c = <<"6">> -> "REG_LINK"
          [] c = <<"7">> -> "REG_MULTI_SZ"
          [] c = <<"8">> -> "REG_RESOURCE_LIST"
          [] c = <<"9">> -> "REG_FULL_RESOURCE_DESCRIPTOR"
          [] c = <<"a">> -> "REG_RESOURCE_REQUIREMENTS_LIST"
          [] c = <<"b">> -> "REG_QWORD"
          [] OTHER -> "REG_BINARY"

Value(type, data) == [type |-> type, data |-> data, error |-> None]
ValueError(type, data, msg) == [type |-> type, data |-> data, error |-> Some(msg)]

\* the loop of lines 246-250: the bytes of the pieces, or a ValueError
HexBytes(hex_data) ==
    LET pieces == Split(hex_data, ",")
        kept == SelectSeq([i \in 1..Len(pieces) |-> Strip(pieces[i])],
                          LAMBDA p : p # <<>> /\ p # <<BS>>)
    IN  IF \A i \in 1..Len(kept) : Int16(kept[i]).ok
        THEN [ok |-> TRUE, bytes |-> [i \in 1..Len(kept) |-> Int16(kept[i]).value]]
        ELSE [ok |-> FALSE, bytes |-> <<>>]

\* re.match(r'hex\(([^)]+)\):', value_str)
HexTypeMatch(value_str) ==
    LET j == FirstIndex(value_str, ")", 5)
    IN  IF /\ StartsWith(value_str, <<"h", "e", "x", "(">>)
           /\ j >= 6
           /\ Len(value_str) >= j + 1
           /\ value_str[j + 1] = ":"
        THEN [match |-> TRUE, group1 |-> SubSeq(value_str, 5, j - 1),
              group2 |-> From(value_str, j + 1)]
        ELSE NoMatch

_parse_value(raw) ==
    LET value_str == Strip(raw)
    IN  IF StartsWith(value_str, <<Q>>) /\ EndsWith(value_str, <<Q>>)
        THEN Value("REG_SZ",
                   PyStr(Replace(Slice(value_str, 1, Len(value_str) - 1), <<BS, Q>>, <<Q>>)))
        ELSE IF StartsWith(value_str, <<"d", "w", "o", "r", "d", ":">>)
        THEN LET n == Int16(From(value_str, 6))
             IN  IF n.ok THEN Value("REG_DWORD", PyInt(n.value))
                 ELSE ValueError("REG_DWORD", PyInt(0), "Ungueltiger DWORD-Wert")
        ELSE IF StartsWith(value_str, <<"q", "w", "o", "r", "d", ":">>)
        THEN LET n == Int16(From(value_str, 6))
             IN  IF n.ok THEN Value("REG_QWORD", PyInt(n.value))
                 ELSE ValueError("REG_QWORD", PyInt(0), "Ungueltiger QWORD-Wert")
        ELSE IF StartsWith(value_str, <<"h", "e", "x">>)
        THEN LET m == HexTypeMatch(value_str)
                 reg_type ==
                     IF StartsWith(value_str, <<"h", "e", "x", ":">>) THEN "REG_BINARY"
                     ELSE IF StartsWith(value_str, <<"h", "e", "x", "(">>) /\ m.match
                     THEN _get_reg_type_from_code(m.group1)
                     ELSE "REG_BINARY"
                 hex_data ==
                     IF StartsWith(value_str, <<"h", "e", "x", ":">>) THEN From(value_str, 4)
                     ELSE IF StartsWith(value_str, <<"h", "e", "x", "(">>) /\ m.match
                     THEN m.group2
                     ELSE value_str
                 b == HexBytes(hex_data)
             IN  IF b.ok THEN Value(reg_type, PyInts(b.bytes))
                 ELSE ValueError(reg_type, PyInts(<<>>), "Ungueltige Hex-Daten")
        ELSE ValueError("UNKNOWN", PyStr(value_str), "Unbekannter Wert-Typ")

(***************************************************************************)
(* reg_parser.py: RegFileParser.parse_content.                             *)
(***************************************************************************)
EmptyResult == [version |-> None, keys |-> <<>>, key_order |-> <<>>,
                deleted_keys |-> <<>>, errors |-> <<>>]

EmptyKey == [values |-> <<>>, default_value |-> None]

\* d[k] = v on a dict d
Put(d, k, v) == [x \in (DOMAIN d) \cup {k} |-> IF x = k THEN v ELSE d[x]]

VersionPrefix == <<"Windows Registry Editor">>

\* lines 166-168 with the key context lost on a line no rule took
UnknownLineDropsKey(p, n, line) ==
    [p EXCEPT !.line_number = n,
              !.current_key = None,
              !.result.errors = Append(@, [line |-> n, text |-> line])]

\* lines 166-168 with the lines numbered from 0
UnknownLineNumberedFromZero(p, n, line) ==
    [p EXCEPT !.line_number = n,
              !.result.errors = Append(@, [line |-> n - 1, text |-> line])]

\* lines 166-168: a line no rule took, n its number
UnknownLine(p, n, line) ==
    [p EXCEPT !.line_number = n,
              !.result.errors = Append(@, [line |-> n, text |-> line])]

\* lines 119-124 with the entry of the key made anew each time it is opened
OpenKeyEntryClears(r, key_path) ==
    [r EXCEPT !.keys = Put(@, key_path, EmptyKey),
              !.key_order = IF key_path \in DOMAIN r.keys THEN @
                            ELSE Append(@, key_path)]

\* lines 119-124: the document with the key opened, its entry made if new
OpenKeyEntry(r, key_path) ==
    IF key_path \in DOMAIN r.keys THEN r
    ELSE [r EXCEPT !.keys = Put(@, key_path, EmptyKey),
                   !.key_order = Append(@, key_path)]

\* one turn of the loop of lines 103-168 on the local state
\* p = [result, current_key, line_number]
ParseStep(p, raw_line) ==
    LET n == p.line_number + 1
        line == Strip(raw_line)
        r == p.result
        key_match == key_pattern(line)
        delete_key_match == delete_key_pattern(line)
        default_match == default_value_pattern(line)
        value_match == value_pattern(line)
        ck == IF p.current_key = None THEN <<>> ELSE p.current_key[1]
    IN  IF line = <<>> \/ StartsWith(line, <<";">>)
        THEN [p EXCEPT !.line_number = n]
        ELSE IF StartsWith(line, VersionPrefix)
        THEN [p EXCEPT !.line_number = n, !.result.version = Some(line)]
        ELSE IF key_match.match
        THEN [line_number |-> n,
              current_key |-> Some(key_match.group1),
              result |-> OpenKeyEntry(r, key_match.group1)]
        ELSE IF delete_key_match.match
        THEN [p EXCEPT !.line_number = n,
                       !.result.deleted_keys = Append(@, delete_key_match.group1)]
        ELSE IF p.current_key # None /\ default_match.match
        THEN [p EXCEPT !.line_number = n,
                       !.result.keys[ck].default_value =
                           Some(_parse_value(default_match.group1))]
        ELSE IF p.current_key # None /\ value_match.match
        THEN [p EXCEPT !.line_number = n,
                       !.result.keys[ck].values =
                           Put(@, value_match.group1,
                               IF value_match.group2 = <<"-">>
                               THEN Value("DELETE", PyNone)
                               ELSE _parse_value(value_match.group2))]
        ELSE UnknownLine(p, n, line)

RECURSIVE ParseFold(_, _)
ParseFold(p, ls) ==
    IF ls = <<>> THEN p ELSE ParseFold(ParseStep(p, Head(ls)), Tail(ls))

\* the document parse_content returns for a text
parse_content(text) ==
    ParseFold([result |-> EmptyResult, current_key |-> None, line_number |-> 0],
              splitlines(text)).result

\* lines 91-100 with the document and the key context kept from the call before
ParseBeginKeepsResult ==
    /\ pc = "parse"
    /\ lines' = splitlines(content)
    /\ line_number' = 0
    /\ pc' = "loop"
    /\ UNCHANGED <<registry_data, content, current_key, result, todo, status_result,
                   live, calls, reg_files, timer, checked,
                   filepath, db_instance, files, metadata, backup_dir, now, created,
                   metadata, backup_dir, now, created>>

\* lines 91-100
ParseBegin ==
    /\ pc = "parse"
    /\ result' = EmptyResult
    /\ lines' = splitlines(content)
    /\ current_key' = None
    /\ line_number' = 0
    /\ pc' = "loop"
    /\ UNCHANGED <<registry_data, content, todo, status_result, live, calls,
                   reg_files, timer, checked,
                   filepath, db_instance, files, metadata, backup_dir, now, created,
                   metadata, backup_dir, now, created>>

\* lines 103-168, one line
ParseLine ==
    /\ pc = "loop"
    /\ line_number < Len(lines)
    /\ LET q == ParseStep([result |-> result, current_key |-> current_key,
                           line_number |-> line_number], lines[line_number + 1])
       IN  /\ result' = q.result
           /\ current_key' = q.current_key
           /\ line_number' = q.line_number
    /\ UNCHANGED <<pc, registry_data, content, lines, todo, status_result, live, calls,
                   reg_files, timer, checked,
                   filepath, db_instance, files, metadata, backup_dir, now, created,
                   metadata, backup_dir, now, created>>

\* lines 173-174
ParseReturn ==
    /\ pc = "loop"
    /\ line_number = Len(lines)
    /\ pc' = "parsed"
    /\ calls' = Append(calls, [text |-> content, document |-> result])
    /\ UNCHANGED <<registry_data, content, lines, line_number, current_key,
                   result, todo, status_result, live, reg_files, timer, checked,
                   filepath, db_instance, files, metadata, backup_dir, now, created,
                   metadata, backup_dir, now, created>>

(***************************************************************************)
(* Python's str(), int() and == on the objects the checker compares.       *)
(***************************************************************************)
\* d.get(k) of a dict held as a record
Get(d, k) == IF k \in DOMAIN d THEN d[k] ELSE None

\* ord() and chr() of the characters the model's payloads use
Chars == <<Q, BS, "0", "1", "2", "3", "4", "5", "6", "7", "8", "9", "a", "b", "z">>
Ords == <<34, 92, 48, 49, 50, 51, 52, 53, 54, 55, 56, 57, 97, 98, 122>>
Ord(c) == Ords[CHOOSE i \in 1..Len(Chars) : Chars[i] = c]
HasChr(n) == \E i \in 1..Len(Ords) : Ords[i] = n
Chr(n) == Chars[CHOOSE i \in 1..Len(Ords) : Ords[i] = n]

RECURSIVE Flatten(_)
Flatten(ss) == IF ss = <<>> THEN <<>> ELSE Head(ss) \o Flatten(Tail(ss))

\* repr() of one byte inside b'...'
ByteRepr(n) ==
    IF HasChr(n) /\ n # 34 /\ n # 92 THEN <<Chr(n)>>
    ELSE IF n = 34 THEN <<Q>>
    ELSE IF n = 92 THEN <<BS, BS>>
    ELSE <<BS, "x">> \o FormatHex(n, 2)

\* repr() of a str inside a list: quotes and backslashes of the text aside
StrRepr(s) == <<"'">> \o s \o <<"'">>

\* str(x)
PyStrOf(x) ==
    CASE x.kind = "str" -> x.seq
      [] x.kind = "int" -> DecDigits(x.int)
      [] x.kind = "None" -> <<"None">>
      [] x.kind = "ints" ->
            <<"[">> \o Join([i \in 1..Len(x.seq) |-> DecDigits(x.seq[i])], <<",", " ">>)
                    \o <<"]">>
      [] x.kind = "strs" ->
            <<"[">> \o Join([i \in 1..Len(x.seq) |-> StrRepr(x.seq[i])], <<",", " ">>)
                    \o <<"]">>
      [] x.kind = "bytes" ->
            <<"b", "'">> \o Flatten([i \in 1..Len(x.seq) |-> ByteRepr(x.seq[i])])
                         \o <<"'">>

\* int(x): [ok, value]; a TypeError or ValueError is ok = FALSE
PyIntOf(x) ==
    IF x.kind = "int" THEN [ok |-> TRUE, value |-> x.int]
    ELSE IF /\ x.kind = "str"
            /\ Strip(x.seq) # <<>>
            /\ \A i \in 1..Len(Strip(x.seq)) :
                   \E d \in 1..10 : HexLower[d] = Strip(x.seq)[i]
    THEN [ok |-> TRUE,
          value |-> LET RECURSIVE dec(_)
                        dec(s) == IF s = <<>> THEN 0
                                  ELSE 10 * dec(SubSeq(s, 1, Len(s) - 1))
                                       + HexDigitValue(s[Len(s)])
                    IN  dec(Strip(x.seq))]
    ELSE [ok |-> FALSE, value |-> 0]

\* x == y
PyEq(x, y) ==
    IF x.kind = y.kind THEN x.int = y.int /\ x.seq = y.seq
    ELSE /\ {x.kind, y.kind} = {"ints", "strs"}
         /\ x.seq = <<>>
         /\ y.seq = <<>>

IsList(x) == x.kind \in {"ints", "strs"}

(***************************************************************************)
(* status_checker.py: RegistryStatusChecker.                               *)
(***************************************************************************)
\* self.root_keys, in the order of the dict
root_keys == <<"HKEY_CLASSES_ROOT", "HKEY_CURRENT_USER", "HKEY_LOCAL_MACHINE",
               "HKEY_USERS", "HKEY_CURRENT_CONFIG">>

\* self.reg_types.get(reg_type, f'UNKNOWN({reg_type})')
reg_types(reg_type) ==
    CASE reg_type = 1 -> "REG_SZ"
      [] reg_type = 2 -> "REG_EXPAND_SZ"
      [] reg_type = 3 -> "REG_BINARY"
      [] reg_type = 4 -> "REG_DWORD"
      [] reg_type = 5 -> "REG_DWORD_BIG_ENDIAN"
      [] reg_type = 6 -> "REG_LINK"
      [] reg_type = 7 -> "REG_MULTI_SZ"
      [] reg_type = 8 -> "REG_RESOURCE_LIST"
      [] reg_type = 9 -> "REG_FULL_RESOURCE_DESCRIPTOR"
      [] reg_type = 10 -> "REG_RESOURCE_REQUIREMENTS_LIST"
      [] reg_type = 11 -> "REG_QWORD"
      [] OTHER -> "UNKNOWN(n)"

\* [root, sub_key]: root is None when no root name starts the path
_parse_key_path(key_path) ==
    IF \E i \in 1..Len(root_keys) : StartsWith(key_path, <<root_keys[i]>>)
    THEN LET i == CHOOSE j \in 1..Len(root_keys) :
                      /\ StartsWith(key_path, <<root_keys[j]>>)
                      /\ \A k \in 1..(j - 1) : ~StartsWith(key_path, <<root_keys[k]>>)
         IN  [root |-> Some(root_keys[i]), sub_key |-> LStrip(From(key_path, 1), {BS})]
    ELSE [root |-> None, sub_key |-> key_path]

_compare_values(expected, actual) ==
    IF Get(expected, "type") # Get(actual, "type") THEN FALSE
    ELSE LET expected_data == Get(expected, "data")
             actual_data == Get(actual, "data")
             value_type == Get(expected, "type")
         IN  IF value_type \in {"REG_SZ", "REG_EXPAND_SZ"}
             THEN PyStrOf(expected_data) = PyStrOf(actual_data)
             ELSE IF value_type \in {"REG_DWORD", "REG_QWORD"}
             THEN /\ PyIntOf(expected_data).ok
                  /\ PyIntOf(actual_data).ok
                  /\ PyIntOf(expected_data).value = PyIntOf(actual_data).value
             ELSE IF value_type = "REG_BINARY"
             THEN IF IsList(expected_data) /\ actual_data.kind = "bytes"
                  THEN PyEq(expected_data, PyInts(actual_data.seq))
                  ELSE PyEq(expected_data, actual_data)
             ELSE IF value_type = "REG_MULTI_SZ"
             THEN IF IsList(expected_data) /\ IsList(actual_data)
                  THEN PyEq(expected_data, actual_data)
                  ELSE PyStrOf(expected_data) = PyStrOf(actual_data)
             ELSE PyStrOf(expected_data) = PyStrOf(actual_data)

\* What one call of winreg answers: not found (FileNotFoundError), another
\* OSError, or ok; a value read that is ok carries (value, type).
NotFound == [kind |-> "notfound", reg_type |-> 0, data |-> PyNone]
OtherError == [kind |-> "error", reg_type |-> 0, data |-> PyNone]
LiveValue(reg_type, data) == [kind |-> "value", reg_type |-> reg_type, data |-> data]

\* read is the outcome of QueryValue (default, typed REG_SZ by line 253) or
\* of QueryValueEx (named value)
_check_value_status(read, value_name, expected_value) ==
    LET value_status == [status |-> "missing", expected |-> expected_value,
                         actual |-> None, error |-> None]
        actual_dict == [type |-> IF value_name = None THEN reg_types(1)
                                 ELSE reg_types(read.reg_type),
                        data |-> read.data]
    IN  IF read.kind = "value"
        THEN IF Get(expected_value, "action") = "delete"
             THEN [value_status EXCEPT !.actual = Some(actual_dict),
                                       !.status = "should_not_exist"]
             ELSE IF _compare_values(expected_value, actual_dict)
             THEN [value_status EXCEPT !.actual = Some(actual_dict), !.status = "match"]
             ELSE [value_status EXCEPT !.actual = Some(actual_dict), !.status = "different"]
        ELSE IF read.kind = "notfound"
        THEN IF Get(expected_value, "action") = "delete"
             THEN [value_status EXCEPT !.status = "correctly_deleted"]
             ELSE [value_status EXCEPT !.status = "missing"]
        ELSE [value_status EXCEPT !.error = Some("OSError")]

DefaultName == <<"@default">>

\* the names under which a key's values are reported
ReportNames(key_data) ==
    (DOMAIN key_data.values)
        \cup (IF key_data.default_value # None THEN {DefaultName} ELSE {})

\* the reads a key's check makes once the key is open: None is the default
ReadNames(key_data) ==
    {Some(n) : n \in DOMAIN key_data.values}
        \cup (IF key_data.default_value # None THEN {None} ELSE {})

\* lines 207-223: the key is not found
MissingValues(key_data) ==
    [n \in ReportNames(key_data) |->
        [status |-> "missing",
         expected |-> IF n \in DOMAIN key_data.values THEN key_data.values[n]
                      ELSE key_data.default_value[1],
         actual |-> None,
         error |-> None]]

\* lines 193-205: the key is open; the named values are written after the
\* default
CheckedValues(key_data, reads) ==
    [n \in ReportNames(key_data) |->
        IF n \in DOMAIN key_data.values
        THEN _check_value_status(reads[Some(n)], Some(n), key_data.values[n])
        ELSE _check_value_status(reads[None], None, key_data.default_value[1])]

\* open is the outcome of winreg.OpenKey: "ok", "notfound" or "error"
_check_key_status(key_path, key_data, open, reads) ==
    LET key_status == [exists |-> FALSE, values |-> <<>>, errors |-> <<>>]
    IN  IF _parse_key_path(key_path).root = None
        THEN [key_status EXCEPT !.errors = <<"Ungueltiger Key-Pfad">>]
        ELSE IF open = "ok"
        THEN [key_status EXCEPT !.exists = TRUE,
                                !.values = CheckedValues(key_data, reads)]
        ELSE IF open = "notfound"
        THEN [key_status EXCEPT !.values = MissingValues(key_data)]
        ELSE [key_status EXCEPT !.errors = <<"Fehler beim Pruefen des Keys">>]

\* open is the outcome of winreg.OpenKey, not asked for an unknown root
_key_exists(key_path, open) ==
    IF _parse_key_path(key_path).root = None THEN FALSE
    ELSE open = "ok"

\* _calculate_overall_status with the test for no matching value made first
_calculate_overall_status_NoMatchFirst(report) ==
    LET summary == report.summary
        total_values == summary.total_values
        matching_values == summary.matching_values
    IN  IF matching_values = 0 THEN "all_inactive"
        ELSE IF total_values = 0 THEN "unknown"
        ELSE IF matching_values = total_values THEN "all_active"
        ELSE "partial"

_calculate_overall_status(report) ==
    LET summary == report.summary
        total_values == summary.total_values
        matching_values == summary.matching_values
    IN  IF total_values = 0 THEN "unknown"
        ELSE IF matching_values = total_values THEN "all_active"
        ELSE IF matching_values = 0 THEN "all_inactive"
        ELSE "partial"

EmptySummary == [total_keys |-> 0, active_keys |-> 0, missing_keys |-> 0,
                 total_values |-> 0, matching_values |-> 0,
                 different_values |-> 0, missing_values |-> 0]

Count(values, statuses) ==
    Cardinality({n \in DOMAIN values : values[n].status \in statuses})

\* lines 90-104
UpdateSummary(summary, key_status) ==
    LET values == key_status.values
        matching == Count(values, {"match"})
        different == Count(values, {"different"})
        total == Cardinality(DOMAIN values)
    IN  [total_keys |-> summary.total_keys + 1,
         active_keys |-> summary.active_keys + (IF key_status.exists THEN 1 ELSE 0),
         missing_keys |-> summary.missing_keys + (IF key_status.exists THEN 0 ELSE 1),
         total_values |-> summary.total_values + total,
         matching_values |-> summary.matching_values + matching,
         different_values |-> summary.different_values + different,
         missing_values |-> summary.missing_values + (total - matching - different)]

(***************************************************************************)
(* The live registry.  It is read only; the model fixes an answer the      *)
(* first time a key or a value is asked for and keeps to it.               *)
(***************************************************************************)
OpenOutcomes == {"ok", "notfound", "error"}

LiveValues ==
    {LiveValue(4, PyInt(1)), LiveValue(4, PyInt(2)), LiveValue(11, PyInt(1)),
     LiveValue(1, PyStr(<<"a">>)), LiveValue(1, PyStr(<<"b">>)),
     LiveValue(2, PyStr(<<"a">>)), LiveValue(3, PyBytes(<<97>>)),
     LiveValue(7, PyStrs(<< <<"a">> >>)), LiveValue(0, PyBytes(<<97>>))}

\* QueryValueEx(reg_key, value_name)
NamedReads == {NotFound, OtherError} \cup LiveValues
\* QueryValue(reg_key, ""): a str
DefaultReads == {NotFound, OtherError, LiveValue(1, PyStr(<<"a">>)),
                 LiveValue(1, PyStr(<<"b">>))}

ReadsOf(name) == IF name = None THEN DefaultReads ELSE NamedReads

LiveKey(key_path) ==
    <<_parse_key_path(key_path).root, _parse_key_path(key_path).sub_key>>

\* the answers that agree with what the registry has answered before
OpenAgrees(key_path, open) ==
    LiveKey(key_path) \in DOMAIN live => live[LiveKey(key_path)].open = open

ReadsAgree(key_path, reads) ==
    LiveKey(key_path) \in DOMAIN live =>
        \A n \in (DOMAIN reads) \cap (DOMAIN live[LiveKey(key_path)].reads) :
            live[LiveKey(key_path)].reads[n] = reads[n]

Merge(f, g) == [x \in (DOMAIN f) \cup (DOMAIN g) |-> IF x \in DOMAIN g THEN g[x] ELSE f[x]]

Answered(l, key_path, open, reads) ==
    IF _parse_key_path(key_path).root = None THEN l
    ELSE Put(l, LiveKey(key_path),
             [open |-> open,
              reads |-> IF LiveKey(key_path) \in DOMAIN l
                        THEN Merge(l[LiveKey(key_path)].reads, reads)
                        ELSE reads])

(***************************************************************************)
(* status_checker.py: RegistryStatusChecker.check_file_status.             *)
(***************************************************************************)
\* lines 59-83, after parse_file has returned the document
CheckBegin ==
    /\ pc = "parsed"
    /\ status_result' = [summary |-> EmptySummary, keys |-> <<>>, errors |-> <<>>,
                         error |-> None, overall_status |-> None]
    /\ todo' = result.key_order
    /\ pc' = "keys"
    /\ UNCHANGED <<registry_data, content, lines, line_number, current_key,
                   result, live, calls, reg_files, timer, checked,
                   filepath, db_instance, files, metadata, backup_dir, now, created,
                   metadata, backup_dir, now, created>>

\* lines 86-104 for one key: the report after the key is checked
CheckKeyStep(report, key_path, key_data, open, reads) ==
    LET key_status == _check_key_status(key_path, key_data, open, reads)
    IN  [report EXCEPT !.keys = Put(@, key_path, key_status),
                       !.summary = UpdateSummary(@, key_status)]

\* lines 86-104, one key of the document
CheckKey ==
    /\ pc = "keys"
    /\ todo # <<>>
    /\ LET key_path == Head(todo)
           key_data == result.keys[key_path]
       IN  \E open \in OpenOutcomes :
             \E reads \in [ReadNames(key_data) -> NamedReads] :
               /\ \A n \in DOMAIN reads : reads[n] \in ReadsOf(n)
               /\ open # "ok" => \A n \in DOMAIN reads : reads[n] = NotFound
               /\ _parse_key_path(key_path).root = None => open = "notfound"
               /\ OpenAgrees(key_path, open)
               /\ ReadsAgree(key_path, reads)
               /\ status_result' =
                      CheckKeyStep(status_result, key_path, key_data, open, reads)
               /\ live' = Answered(live, key_path, open,
                                   IF open = "ok" THEN reads ELSE <<>>)
    /\ todo' = Tail(todo)
    /\ UNCHANGED <<pc, registry_data, content, lines, line_number, current_key, result,
                   calls, reg_files, timer, checked,
                   filepath, db_instance, files, metadata, backup_dir, now, created,
                   metadata, backup_dir, now, created>>

RECURSIVE DeletedEntries(_, _, _)
\* lines 107-114: keys is the report's key map, opens the answers of OpenKey
DeletedEntries(keys, deleted_keys, opens) ==
    IF deleted_keys = <<>> THEN keys
    ELSE LET deleted_key == Head(deleted_keys)
             key_exists == _key_exists(deleted_key, opens[deleted_key])
         IN  DeletedEntries(
                 Put(keys, deleted_key,
                     [exists |-> key_exists,
                      expected_deleted |-> TRUE,
                      status |-> IF key_exists THEN "should_not_exist"
                                 ELSE "correctly_deleted",
                      values |-> <<>>]),
                 Tail(deleted_keys), opens)

RECURSIVE AnsweredAll(_, _, _)
AnsweredAll(l, deleted_keys, opens) ==
    IF deleted_keys = <<>> THEN l
    ELSE AnsweredAll(Answered(l, Head(deleted_keys), opens[Head(deleted_keys)], <<>>),
                     Tail(deleted_keys), opens)

Range(s) == {s[i] : i \in DOMAIN s}

\* lines 106-117 with the deleted keys counted as keys of the summary
CheckFinishStepCountsDeleted(report, deleted_keys, opens) ==
    LET with_deleted ==
            [report EXCEPT !.keys = DeletedEntries(@, deleted_keys, opens),
                           !.summary.total_keys = @ + Len(deleted_keys)]
    IN  [with_deleted EXCEPT
            !.overall_status = Some(_calculate_overall_status(with_deleted))]

\* lines 106-117: the report with the deleted keys and the overall status
CheckFinishStep(report, deleted_keys, opens) ==
    LET with_deleted == [report EXCEPT !.keys = DeletedEntries(@, deleted_keys, opens)]
    IN  [with_deleted EXCEPT
            !.overall_status = Some(_calculate_overall_status(with_deleted))]

\* lines 106-120
CheckFinish ==
    /\ pc = "keys"
    /\ todo = <<>>
    /\ \E opens \in [Range(result.deleted_keys) -> OpenOutcomes] :
         /\ \A k \in DOMAIN opens :
               /\ OpenAgrees(k, opens[k])
               /\ _parse_key_path(k).root = None => opens[k] = "notfound"
               /\ \A k2 \in DOMAIN opens : LiveKey(k) = LiveKey(k2) => opens[k] = opens[k2]
         /\ status_result' = CheckFinishStep(status_result, result.deleted_keys, opens)
         /\ live' = AnsweredAll(live, result.deleted_keys, opens)
    /\ pc' = "done"
    /\ UNCHANGED <<registry_data, content, lines, line_number, current_key,
                   result, todo, calls, reg_files, timer, checked,
                   filepath, db_instance, files, metadata, backup_dir, now, created,
                   metadata, backup_dir, now, created>>

\* fixed texts of the file format
VersionLine == <<"Windows Registry Editor", " ", "Version 5.00">>
DwordPrefix == <<"d", "w", "o", "r", "d", ":">>
QwordPrefix == <<"q", "w", "o", "r", "d", ":">>
HexPrefix == <<"h", "e", "x", ":">>

(***************************************************************************)
(* reg_creator.py: RegFileCreator._format_value, _generate_content.        *)
(* A document handed to the serializer is [keys, key_order, deleted_keys]; *)
(* a key is [values, value_order, default_value]: the two orders are the   *)
(* orders of the dicts.                                                    *)
(***************************************************************************)
\* [f"{b:02x}" for b in data], joined by ","
HexList(bytes) == Join([i \in 1..Len(bytes) |-> FormatHex(bytes[i], 2)], <<",">>)

\* [ord(char) & 0xFF, (ord(char) >> 8) & 0xFF] for each char, then [0, 0]
Utf16Terminated(s) ==
    Flatten([i \in 1..Len(s) |-> <<Ord(s[i]) % 256, (Ord(s[i]) \div 256) % 256>>])
        \o <<0, 0>>

\* str(string) of one element of a list payload
ElementStr(data, i) ==
    IF data.kind = "strs" THEN data.seq[i] ELSE DecDigits(data.seq[i])

\* lines 173-179: the chunks of 16 bytes from offset i on, "," and "\" after
\* each one that is not the last
RECURSIVE BinaryChunks(_, _)
BinaryChunks(hex_values, i) ==
    IF i >= Len(hex_values) THEN <<>>
    ELSE LET chunk == Join(Slice(hex_values, i, i + 16), <<",">>)
         IN  <<IF i + 16 < Len(hex_values) THEN chunk \o <<",", BS>> ELSE chunk>>
                 \o BinaryChunks(hex_values, i + 16)

\* lines 137-215: value_data is a dict
_format_value(value_data) ==
    LET value_type == IF "type" \in DOMAIN value_data THEN value_data.type ELSE "REG_SZ"
        data == IF "data" \in DOMAIN value_data THEN value_data.data ELSE PyNone
    IN  IF value_type = "REG_SZ"
        THEN IF data.kind = "None" THEN <<Q, Q>>
             ELSE <<Q>> \o Replace(PyStrOf(data), <<Q>>, <<BS, Q>>) \o <<Q>>
        ELSE IF value_type = "REG_DWORD"
        THEN IF data.kind = "int" THEN DwordPrefix \o FormatHex(data.int, 8)
             ELSE DwordPrefix \o Zeros(8)
        ELSE IF value_type = "REG_QWORD"
        THEN IF data.kind = "int" THEN QwordPrefix \o FormatHex(data.int, 16)
             ELSE QwordPrefix \o Zeros(16)
        ELSE IF value_type = "REG_BINARY"
        THEN IF IsList(data)
             THEN LET hex_values == [i \in 1..Len(data.seq) |-> FormatHex(data.seq[i], 2)]
                      chunks == BinaryChunks(hex_values, 0)
                  IN  IF Len(hex_values) <= 8
                      THEN HexPrefix \o Join(hex_values, <<",">>)
                      ELSE HexPrefix \o chunks[1] \o <<NL, " ", " ">>
                               \o Join(Tail(chunks), <<NL, " ", " ">>)
             ELSE HexPrefix
        ELSE IF value_type = "REG_MULTI_SZ"
        THEN IF IsList(data)
             THEN <<"h", "e", "x", "(", "7", ")", ":">>
                      \o HexList(Flatten([i \in 1..Len(data.seq) |->
                                             Utf16Terminated(ElementStr(data, i))])
                                 \o <<0, 0>>)
             ELSE <<"h", "e", "x", "(", "7", ")", ":", "0", "0", ",", "0", "0">>
        ELSE IF value_type = "REG_EXPAND_SZ"
        THEN <<"h", "e", "x", "(", "2", ")", ":">>
                 \o HexList(IF data.kind = "None" THEN <<0, 0>>
                            ELSE Utf16Terminated(PyStrOf(data)))
        ELSE <<Q>> \o PyStrOf(data) \o <<Q>>

\* lines 97-112: the lines of one key
KeyLines(key_path, key_data) ==
    <<(<<"[">> \o key_path \o <<"]">>)>>
        \o (IF key_data.default_value # None
            THEN <<(<<"@", "=">> \o _format_value(key_data.default_value[1]))>>
            ELSE <<>>)
        \o [i \in 1..Len(key_data.value_order) |->
               LET value_name == key_data.value_order[i]
                   value_data == key_data.values[value_name]
               IN  IF Get(value_data, "action") = "delete"
                   THEN <<Q>> \o value_name \o <<Q, "=", "-">>
                   ELSE <<Q>> \o value_name \o <<Q, "=">> \o _format_value(value_data)]
        \o << <<>> >>

\* _generate_content(registry_data) without title and description
_generate_content(data) ==
    Join(<<VersionLine, <<>> >>
             \o Flatten([i \in 1..Len(data.key_order) |->
                            KeyLines(data.key_order[i], data.keys[data.key_order[i]])])
             \o Flatten([i \in 1..Len(data.deleted_keys) |->
                            <<(<<"[", "-">> \o data.deleted_keys[i] \o <<"]">>), <<>> >>]),
         <<NL>>)

\* create_file, line 46
GenerateContent ==
    /\ pc = "create"
    /\ content' = _generate_content(registry_data)
    /\ pc' = "parse"
    /\ UNCHANGED <<registry_data, lines, line_number, current_key, result, todo,
                   status_result, live, calls, reg_files, timer, checked,
                   filepath, db_instance, files, metadata, backup_dir, now, created,
                   metadata, backup_dir, now, created>>

(***************************************************************************)
(* Texts.                                                                  *)
(***************************************************************************)
HKCU == "HKEY_CURRENT_USER"
PathA == <<HKCU, BS, "A">>
PathB == <<HKCU, BS, "B">>

\* a second header line, of another version
VersionLine4 == <<"Windows Registry Editor", " ", "Version 4.00">>
KeyLineA == <<"[">> \o PathA \o <<"]">>
KeyLineB == <<"[">> \o PathB \o <<"]">>
\* a key under a root that is not one of root_keys
PathX == <<"HKEY_BOGUS", BS, "A">>
KeyLineX == <<"[">> \o PathX \o <<"]">>
DeleteKeyLineA == <<"[", "-">> \o PathA \o <<"]">>
FlagDword1 == <<Q, "Flag", Q, "=">> \o DwordPrefix \o <<"0", "0", "0", "0", "0", "0", "0", "1">>
FlagBadDword == <<Q, "Flag", Q, "=">> \o DwordPrefix \o <<"z", "z">>
FlagBadQword == <<Q, "Flag", Q, "=">> \o QwordPrefix \o <<"z", "z">>
FlagDelete == <<Q, "Flag", Q, "=", "-">>
EmptyNameSzB == <<Q, Q, "=", Q, "b", Q>>
DefaultSzA == <<"@", "=", Q, "a", Q>>
AtDefaultSzB == <<Q, "@default", Q, "=", Q, "b", Q>>
GarbageLine == <<"garbage", " ", "line">>
CommentLine == <<";", "note">>
BlankLine == <<" ">>

ParseLines == {VersionLine, VersionLine4, KeyLineA, KeyLineB, DeleteKeyLineA, FlagDword1,
               FlagBadDword, FlagBadQword, FlagDelete, EmptyNameSzB, DefaultSzA,
               GarbageLine, CommentLine, BlankLine}

SeqsUpTo(S, n) == UNION {[1..k -> S] : k \in 0..n}

NoReport == [summary |-> <<>>, keys |-> <<>>, errors |-> <<>>,
             error |-> None, overall_status |-> None]

InitParse ==
    /\ pc = "parse"
    /\ registry_data = None
    /\ content \in {Join(ls, <<NL>>) : ls \in SeqsUpTo(ParseLines, MaxLines)}
    /\ lines = <<>>
    /\ line_number = 0
    /\ current_key = None
    /\ result = EmptyResult
    /\ todo = <<>>
    /\ status_result = NoReport
    /\ live = <<>>
    /\ calls = <<>>
    /\ reg_files = 0
    /\ timer = FALSE
    /\ checked = <<>>
    /\ filepath = <<>>
    /\ db_instance = None
    /\ files = <<>>
    /\ metadata = <<>>
    /\ backup_dir = {}
    /\ now = 0
    /\ created = <<>>

NextParse == ParseBegin \/ ParseLine \/ ParseReturn

SpecParse == InitParse /\ [][NextParse]_vars

(***************************************************************************)
(* parse_content on the texts that open keys more than once.               *)
(***************************************************************************)
MaxMergeLines == 4

DefaultSzB == <<"@", "=", Q, "b", Q>>

MergeLines == {KeyLineA, KeyLineB, FlagDword1, FlagDelete, DefaultSzA, DefaultSzB}

InitMerge ==
    /\ pc = "parse"
    /\ registry_data = None
    /\ content \in {Join(ls, <<NL>>) : ls \in SeqsUpTo(MergeLines, MaxMergeLines)}
    /\ lines = <<>>
    /\ line_number = 0
    /\ current_key = None
    /\ result = EmptyResult
    /\ todo = <<>>
    /\ status_result = NoReport
    /\ live = <<>>
    /\ calls = <<>>
    /\ reg_files = 0
    /\ timer = FALSE
    /\ checked = <<>>
    /\ filepath = <<>>
    /\ db_instance = None
    /\ files = <<>>
    /\ metadata = <<>>
    /\ backup_dir = {}
    /\ now = 0
    /\ created = <<>>

SpecMerge == InitMerge /\ [][NextParse]_vars

(***************************************************************************)
(* parse_content called again and again by one caller.  The locals of a    *)
(* call are left as the call before left them until line 91 sets them.     *)
(***************************************************************************)
MaxCalls == 3

ReparseTexts ==
    {Join(ls, <<NL>>) : ls \in {<<KeyLineA, FlagDword1>>,
                                 <<VersionLine, KeyLineA, FlagDelete>>,
                                 <<KeyLineB, DefaultSzA, GarbageLine>>,
                                 <<FlagDword1>>}}

\* the caller calls parse_content(text) once more
ParseAgain ==
    /\ pc = "parsed"
    /\ Len(calls) < MaxCalls
    /\ content' \in ReparseTexts
    /\ pc' = "parse"
    /\ UNCHANGED <<registry_data, lines, line_number, current_key, result, todo,
                   status_result, live, calls, reg_files, timer, checked,
                   filepath, db_instance, files, metadata, backup_dir, now, created,
                   metadata, backup_dir, now, created>>

InitReparse ==
    /\ pc = "parse"
    /\ registry_data = None
    /\ content \in ReparseTexts
    /\ lines = <<>>
    /\ line_number = 0
    /\ current_key = None
    /\ result = EmptyResult
    /\ todo = <<>>
    /\ status_result = NoReport
    /\ live = <<>>
    /\ calls = <<>>
    /\ reg_files = 0
    /\ timer = FALSE
    /\ checked = <<>>
    /\ filepath = <<>>
    /\ db_instance = None
    /\ files = <<>>
    /\ metadata = <<>>
    /\ backup_dir = {}
    /\ now = 0
    /\ created = <<>>

NextReparse == ParseBegin \/ ParseLine \/ ParseReturn \/ ParseAgain

SpecReparse == InitReparse /\ [][NextReparse]_vars

(***************************************************************************)
(* check_file_status on a .reg text: parse, then check against the live    *)
(* registry.                                                               *)
(***************************************************************************)
CheckLines == {KeyLineA, KeyLineB, KeyLineX, DeleteKeyLineA, FlagDword1, FlagDelete,
               DefaultSzA, AtDefaultSzB, EmptyNameSzB}

Init ==
    /\ pc = "parse"
    /\ registry_data = None
    /\ content \in {Join(ls, <<NL>>) : ls \in SeqsUpTo(CheckLines, MaxCheckLines)}
    /\ lines = <<>>
    /\ line_number = 0
    /\ current_key = None
    /\ result = EmptyResult
    /\ todo = <<>>
    /\ status_result = NoReport
    /\ live = <<>>
    /\ calls = <<>>
    /\ reg_files = 0
    /\ timer = FALSE
    /\ checked = <<>>
    /\ filepath = <<>>
    /\ db_instance = None
    /\ files = <<>>
    /\ metadata = <<>>
    /\ backup_dir = {}
    /\ now = 0
    /\ created = <<>>

Next ==
    \/ ParseBegin
    \/ ParseLine
    \/ ParseReturn
    \/ CheckBegin
    \/ CheckKey
    \/ CheckFinish

Spec == Init /\ [][Next]_vars

(***************************************************************************)
(* Serialize a document of one key with one value, then parse the text.    *)
(***************************************************************************)
MaxBytes == 20

Bytes(n) == [i \in 1..n |-> i]

\* values of every tag of the data model, the payload of the tag's type
RoundTripValues ==
    {[type |-> "REG_SZ", data |-> PyStr(s)] :
        s \in {<<>>, <<"a">>, <<"a", Q, "b">>, <<"a", BS>>}}
    \cup {[type |-> "REG_EXPAND_SZ", data |-> PyStr(<<"a">>)]}
    \cup {[type |-> "REG_DWORD", data |-> PyInt(n)] : n \in {0, 1, 255}}
    \cup {[type |-> "REG_QWORD", data |-> PyInt(n)] : n \in {1, 4096}}
    \cup {[type |-> "REG_BINARY", data |-> PyInts(Bytes(n))] :
             n \in {0, 1, 8, 9, 16, MaxBytes}}
    \cup {[type |-> "REG_MULTI_SZ", data |-> PyStrs(l)] :
             l \in {<<>>, << <<"a">> >>, << <<"a">>, <<"b">> >>}}
    \cup {[type |-> t, data |-> PyInts(<<1>>)] :
             t \in {"REG_NONE", "REG_LINK", "REG_DWORD_BIG_ENDIAN", "REG_RESOURCE_LIST",
                    "REG_FULL_RESOURCE_DESCRIPTOR", "REG_RESOURCE_REQUIREMENTS_LIST"}}
    \cup {[type |-> "UNKNOWN", data |-> PyStr(<<"z">>)]}
    \cup {[type |-> "DELETE", data |-> PyNone]}

\* the document of the single key PathA: v its default value, or its value name;
\* InitRoundTrip adds the documents that also have PathB to delete
OneValueDocument(name, v) ==
    [keys |-> (PathA :> (IF name = None
                         THEN [values |-> <<>>, value_order |-> <<>>,
                               default_value |-> Some(v)]
                         ELSE [values |-> (name[1] :> v), value_order |-> <<name[1]>>,
                               default_value |-> None])),
     key_order |-> <<PathA>>,
     deleted_keys |-> <<>>]

InitRoundTrip ==
    /\ pc = "create"
    /\ registry_data \in
           {OneValueDocument(Some(<<"Flag">>), v) : v \in RoundTripValues}
           \cup {OneValueDocument(None, v) :
                    v \in {w \in RoundTripValues : w.type # "DELETE"}}
           \cup {[OneValueDocument(Some(<<"Flag">>), v) EXCEPT
                      !.deleted_keys = <<PathB>>] : v \in RoundTripValues}
    /\ content = <<>>
    /\ lines = <<>>
    /\ line_number = 0
    /\ current_key = None
    /\ result = EmptyResult
    /\ todo = <<>>
    /\ status_result = NoReport
    /\ live = <<>>
    /\ calls = <<>>
    /\ reg_files = 0
    /\ timer = FALSE
    /\ checked = <<>>
    /\ filepath = <<>>
    /\ db_instance = None
    /\ files = <<>>
    /\ metadata = <<>>
    /\ backup_dir = {}
    /\ now = 0
    /\ created = <<>>

NextRoundTrip == GenerateContent \/ ParseBegin \/ ParseLine \/ ParseReturn

SpecRoundTrip == InitRoundTrip /\ [][NextRoundTrip]_vars

(***************************************************************************)
(* check_file_status on the text of one key with one declared value.       *)
(***************************************************************************)
FlagLine(value) == <<Q, "Flag", Q, "=">> \o value

CompareLines ==
    {FlagDword1,
     FlagLine(DwordPrefix \o <<"0", "0", "0", "0", "0", "0", "0", "2">>),
     FlagLine(QwordPrefix \o Zeros(15) \o <<"1">>),
     FlagLine(<<Q, "a", Q>>),
     FlagLine(<<Q, "b", Q>>),
     FlagLine(HexPrefix \o <<"6", "1">>),
     FlagLine(<<"h", "e", "x", "(", "0", ")", ":", "6", "1">>),
     FlagLine(<<"h", "e", "x", "(", "2", ")", ":">> \o HexList(<<97, 0, 0, 0>>)),
     FlagLine(<<"h", "e", "x", "(", "7", ")", ":">> \o HexList(<<97, 0, 0, 0, 0, 0>>)),
     DefaultSzA}

InitCompare ==
    /\ pc = "parse"
    /\ registry_data = None
    /\ content \in {Join(<<KeyLineA, l>>, <<NL>>) : l \in CompareLines}
    /\ lines = <<>>
    /\ line_number = 0
    /\ current_key = None
    /\ result = EmptyResult
    /\ todo = <<>>
    /\ status_result = NoReport
    /\ live = <<>>
    /\ calls = <<>>
    /\ reg_files = 0
    /\ timer = FALSE
    /\ checked = <<>>
    /\ filepath = <<>>
    /\ db_instance = None
    /\ files = <<>>
    /\ metadata = <<>>
    /\ backup_dir = {}
    /\ now = 0
    /\ created = <<>>

SpecCompare == InitCompare /\ [][Next]_vars

(***************************************************************************)
(* The loops of check_file_status on a document of the data model: a value *)
(* is a tagged value or the delete entry of create_delete_value_entry.     *)
(***************************************************************************)
DeleteEntry == [action |-> "delete"]

SummaryValues == {Value("REG_DWORD", PyInt(1)), DeleteEntry}

\* a key without values or with the one value Flag
SummaryKeys ==
    {EmptyKey} \cup {[EmptyKey EXCEPT !.values = Put(@, <<"Flag">>, v)] :
                        v \in SummaryValues}

\* the documents of one or two keys, with or without a key to delete
SummaryDocuments ==
    {[EmptyResult EXCEPT !.keys = keys, !.key_order = key_order,
                         !.deleted_keys = deleted_keys] :
        key_order \in {<<PathA>>, <<PathA, PathB>>},
        keys \in UNION {[{PathA} -> SummaryKeys], [{PathA, PathB} -> SummaryKeys]},
        deleted_keys \in {<<>>, <<PathB>>}}

InitSummary ==
    /\ pc = "parsed"
    /\ registry_data = None
    /\ content = <<>>
    /\ lines = <<>>
    /\ line_number = 0
    /\ current_key = None
    /\ result \in {d \in SummaryDocuments :
                       /\ DOMAIN d.keys = Range(d.key_order)
                       /\ Range(d.deleted_keys) \cap DOMAIN d.keys = {}}
    /\ todo = <<>>
    /\ status_result = NoReport
    /\ live = <<>>
    /\ calls = <<>>
    /\ reg_files = 0
    /\ timer = FALSE
    /\ checked = <<>>
    /\ filepath = <<>>
    /\ db_instance = None
    /\ files = <<>>
    /\ metadata = <<>>
    /\ backup_dir = {}
    /\ now = 0
    /\ created = <<>>

NextSummary == CheckBegin \/ CheckKey \/ CheckFinish

SpecSummary == InitSummary /\ [][NextSummary]_vars

(***************************************************************************)
(* main_window.py: RegistryManagerGUI._background_status_check, the timer  *)
(* callback that _refresh_collection arms, with the database of the GUI,   *)
(* SQLiteRegistryDB.  The files of the collection are 1..reg_files, in the *)
(* order of glob.                                                          *)
(***************************************************************************)
MaxFiles == 4

\* sqlite_db.py 469-471: no documentation is kept for a file
get_documentation(reg_file) == None

\* what check_file_status hands back: an overall status, or a report without
OverallOutcomes == {"all_active", "all_inactive", "partial", "unknown", "error"}

\* lines 1831-1834: the files without documentation or of status 'Unbekannt'
unknown_files ==
    SelectSeq([f \in 1..reg_files |-> f],
              LAMBDA f : \/ get_documentation(f) = None
                         \/ get_documentation(f)[1].status = "Unbekannt")

\* lines 1822-1870: one run of the callback.  save_documentation keeps
\* nothing (sqlite_db.py 473-475), so the status worked out for a file goes
\* to no state but the log of the checks.
BackgroundStatusCheck ==
    /\ pc = "gui"
    /\ timer
    /\ LET batch == {unknown_files[i] : i \in 1..Min(3, Len(unknown_files))}
       IN  \E outcomes \in [batch -> OverallOutcomes] :
               checked' = [f \in DOMAIN checked \cup batch |->
                              IF f \in batch THEN outcomes[f] ELSE checked[f]]
    /\ timer' = (Len(unknown_files) > 3)
    /\ UNCHANGED <<pc, registry_data, content, lines, line_number, current_key, result,
                   todo, status_result, live, calls, reg_files,
                   filepath, db_instance, files, metadata, backup_dir, now, created,
                   metadata, backup_dir, now, created>>

\* after _refresh_collection, line 664: the callback is armed
InitBackground ==
    /\ pc = "gui"
    /\ registry_data = None
    /\ content = <<>>
    /\ lines = <<>>
    /\ line_number = 0
    /\ current_key = None
    /\ result = EmptyResult
    /\ todo = <<>>
    /\ status_result = NoReport
    /\ live = <<>>
    /\ calls = <<>>
    /\ reg_files \in 0..MaxFiles
    /\ timer = TRUE
    /\ checked = <<>>
    /\ filepath = <<>>
    /\ db_instance = None
    /\ files = <<>>
    /\ metadata = <<>>
    /\ backup_dir = {}
    /\ now = 0
    /\ created = <<>>

NextBackground == BackgroundStatusCheck

\* the event loop of Tk runs a pending callback
SpecBackground ==
    InitBackground /\ [][NextBackground]_vars /\ WF_vars(BackgroundStatusCheck)

(***************************************************************************)
(* reg_parser.py: RegFileParser.parse_file, and check_file_status from its *)
(* first line.  A path is a sequence of symbols, "embedded:" being one;    *)
(* the file system answers open() for a path with the decoded text of the  *)
(* file (latin1, the last encoding tried, decodes every byte string) or    *)
(* with an OSError; a path it does not hold is not found.                  *)
(***************************************************************************)
EmbeddedPrefix == "embedded:"

TextFile(text) == [kind |-> "text", text |-> text]
Denied == [kind |-> "denied", text |-> <<>>]

\* the outcome of parse_file before parse_content is called
Raises(e) == [raised |-> TRUE, error |-> e, content |-> <<>>]
Reads(text) == [raised |-> FALSE, error |-> <<>>, content |-> text]

\* db is the table embedded_regs: the rows by id
get_embedded_reg(db, reg_id) ==
    IF reg_id \in DOMAIN db THEN Some(db[reg_id]) ELSE None

\* lines 38-75: the text handed to parse_content, or the exception
parse_file(path, db, fs) ==
    IF StartsWith(path, <<EmbeddedPrefix>>)
    THEN IF db = None
         THEN Raises(<<"Database instance required for embedded REG files">>)
         ELSE LET reg_id == SelectSeq(path, LAMBDA x : x # EmbeddedPrefix)
                  reg_data == get_embedded_reg(db[1], reg_id)
              IN  IF reg_data = None
                  THEN Raises(<<"Embedded REG ">> \o reg_id \o <<" not found">>)
                  ELSE Reads(reg_data[1].content)
    ELSE IF path \notin DOMAIN fs
    THEN Raises(<<"[Errno 2] No such file or directory: ">> \o path)
    ELSE IF fs[path].kind = "denied"
    THEN Raises(<<"[Errno 13] Permission denied: ">> \o path)
    ELSE Reads(fs[path].text)

\* status_checker.py 122-130 with an overall status in the report
ErrorReportWithOverallStatus(e) ==
    [summary |-> <<>>, keys |-> <<>>, errors |-> <<e>>, error |-> Some(e),
     overall_status |-> Some("unknown")]

\* status_checker.py 122-130: the report of the except branch
ErrorReport(e) ==
    [summary |-> <<>>, keys |-> <<>>, errors |-> <<e>>, error |-> Some(e),
     overall_status |-> None]

\* check_file_status line 63: parse_file has the text and calls parse_content
ParseFile ==
    /\ pc = "file"
    /\ ~parse_file(filepath, db_instance, files).raised
    /\ content' = parse_file(filepath, db_instance, files).content
    /\ pc' = "parse"
    /\ UNCHANGED <<registry_data, lines, line_number, current_key, result, todo,
                   status_result, live, calls, reg_files, timer, checked,
                   filepath, db_instance, files, metadata, backup_dir, now, created,
                   metadata, backup_dir, now, created>>

\* parse_file raises (reg_parser.py 77-79) and check_file_status returns the
\* report of its except branch
CheckFileFails ==
    /\ pc = "file"
    /\ parse_file(filepath, db_instance, files).raised
    /\ status_result' = ErrorReport(parse_file(filepath, db_instance, files).error)
    /\ pc' = "done"
    /\ UNCHANGED <<registry_data, content, lines, line_number, current_key, result,
                   todo, live, calls, reg_files, timer, checked,
                   filepath, db_instance, files, metadata, backup_dir, now, created,
                   metadata, backup_dir, now, created>>

FileTexts ==
    {<<>>,
     Join(<<KeyLineA, FlagDword1>>, <<NL>>),
     Join(<<KeyLineA, DefaultSzA, FlagDelete>>, <<NL>>),
     Join(<<KeyLineX, FlagDword1, GarbageLine>>, <<NL>>)}

FileName == <<"a.reg">>
RegId == <<"1">>
FilePaths == {FileName, <<"b.reg">>, <<EmbeddedPrefix>> \o RegId,
              <<EmbeddedPrefix, "2">>}

Databases ==
    {None} \cup {Some(db) : db \in UNION {[ids -> [content : FileTexts]] :
                                              ids \in SUBSET {RegId}}}

FileSystems ==
    UNION {[paths -> {Denied} \cup {TextFile(t) : t \in FileTexts}] :
               paths \in SUBSET {FileName}}

InitFile ==
    /\ pc = "file"
    /\ registry_data = None
    /\ content = <<>>
    /\ lines = <<>>
    /\ line_number = 0
    /\ current_key = None
    /\ result = EmptyResult
    /\ todo = <<>>
    /\ status_result = NoReport
    /\ live = <<>>
    /\ calls = <<>>
    /\ reg_files = 0
    /\ timer = FALSE
    /\ checked = <<>>
    /\ filepath \in FilePaths
    /\ db_instance \in Databases
    /\ files \in FileSystems
    /\ metadata = <<>>
    /\ backup_dir = {}
    /\ now = 0
    /\ created = <<>>

NextFile ==
    \/ ParseFile
    \/ CheckFileFails
    \/ ParseBegin
    \/ ParseLine
    \/ ParseReturn
    \/ CheckBegin
    \/ CheckKey
    \/ CheckFinish

SpecFile == InitFile /\ [][NextFile]_vars

(***************************************************************************)
(* backup_manager.py: RegistryBackupManager.  A timestamp is the clock's   *)
(* second, which strftime("%Y%m%d_%H%M%S") prints; time passes between the *)
(* calls.                                                                  *)
(***************************************************************************)
MaxClock == 2
MaxBackups == 3

\* f"backup_{timestamp}"
BackupId(timestamp) == <<"backup_", timestamp>>

\* the dict of lines 76-87; registry_keys and the two file paths follow from
\* reg_file and id
BackupInfo(backup_id, timestamp, reg_file, description) ==
    [id |-> backup_id, timestamp |-> timestamp, reg_file |-> reg_file,
     description |-> description]

RegFileNames == {"a.reg", "b.reg"}
Descriptions == {""}

\* the first entry of the id, or None
get_backup_info(backups, backup_id) ==
    IF \E i \in DOMAIN backups : backups[i].id = backup_id
    THEN Some(backups[CHOOSE i \in DOMAIN backups :
                          /\ backups[i].id = backup_id
                          /\ \A j \in 1..(i - 1) : backups[j].id # backup_id])
    ELSE None

\* copied: shutil.copy2 of the .reg file succeeds; when it raises, the
\* directory is made and None is returned
create_backup ==
    /\ pc = "backup"
    /\ Len(created) < MaxBackups
    /\ \E reg_file \in RegFileNames, description \in Descriptions, copied \in BOOLEAN :
          LET timestamp == now
              backup_id == BackupId(timestamp)
          IN  /\ backup_dir' = backup_dir \cup {backup_id}
              /\ IF copied
                 THEN /\ metadata' = Append(metadata,
                                            BackupInfo(backup_id, timestamp, reg_file,
                                                       description))
                      /\ created' = Append(created, [id |-> backup_id,
                                                     reg_file |-> reg_file])
                 ELSE UNCHANGED <<metadata, created>>
    /\ UNCHANGED <<pc, registry_data, content, lines, line_number, current_key, result,
                   todo, status_result, live, calls, reg_files, timer, checked,
                   filepath, db_instance, files, now>>

delete_backup ==
    /\ pc = "backup"
    /\ \E timestamp \in 0..MaxClock :
          LET backup_id == BackupId(timestamp)
          IN  IF get_backup_info(metadata, backup_id) = None
              THEN UNCHANGED <<metadata, backup_dir>>
              ELSE /\ backup_dir' = backup_dir \ {backup_id}
                   /\ metadata' = SelectSeq(metadata, LAMBDA b : b.id # backup_id)
    /\ UNCHANGED <<pc, registry_data, content, lines, line_number, current_key, result,
                   todo, status_result, live, calls, reg_files, timer, checked,
                   filepath, db_instance, files, now, created>>

\* a second passes
Tick ==
    /\ pc = "backup"
    /\ now < MaxClock
    /\ now' = now + 1
    /\ UNCHANGED <<pc, registry_data, content, lines, line_number, current_key, result,
                   todo, status_result, live, calls, reg_files, timer, checked,
                   filepath, db_instance, files, metadata, backup_dir, created>>

InitBackup ==
    /\ pc = "backup"
    /\ registry_data = None
    /\ content = <<>>
    /\ lines = <<>>
    /\ line_number = 0
    /\ current_key = None
    /\ result = EmptyResult
    /\ todo = <<>>
    /\ status_result = NoReport
    /\ live = <<>>
    /\ calls = <<>>
    /\ reg_files = 0
    /\ timer = FALSE
    /\ checked = <<>>
    /\ filepath = <<>>
    /\ db_instance = None
    /\ files = <<>>
    /\ metadata = <<>>
    /\ backup_dir = {}
    /\ now = 0
    /\ created = <<>>

NextBackup ==
    \/ create_backup
    \/ delete_backup
    \/ Tick

SpecBackup == InitBackup /\ [][NextBackup]_vars

(***************************************************************************)
(* Properties of parse_content (SpecParse).                                *)
(***************************************************************************)
Parsed == pc = "parsed"

\* a line that matches no rule of the grammar: not blank, not a comment, not
\* the version header, not a key line, not a key-deletion line, not a value line
Malformed(raw_line) ==
    LET line == Strip(raw_line)
    IN  /\ line # <<>>
        /\ ~StartsWith(line, <<";">>)
        /\ ~StartsWith(line, VersionPrefix)
        /\ ~key_pattern(line).match
        /\ ~delete_key_pattern(line).match
        /\ ~default_value_pattern(line).match
        /\ ~value_pattern(line).match

\* the document of the same text without its malformed lines
WithoutMalformed(ls) ==
    ParseFold([result |-> EmptyResult, current_key |-> None, line_number |-> 0],
              SelectSeq(ls, LAMBDA l : ~Malformed(l))).result

\* C1: parse_content returns a document for every text; a line that matches no
\* grammar rule leaves an error entry and nothing else, so that the keys, the
\* values (flagged ones included), the deleted keys and the version of the
\* returned document are those of the text without its malformed lines: every
\* later well-formed key or value line is still parsed.
C1_MalformedLinesAreOnlyRecorded ==
    Parsed =>
        /\ result.keys = WithoutMalformed(lines).keys
        /\ result.key_order = WithoutMalformed(lines).key_order
        /\ result.deleted_keys = WithoutMalformed(lines).deleted_keys
        /\ result.version = WithoutMalformed(lines).version
        /\ \A i \in 1..Len(lines) :
              Malformed(lines[i]) =>
                  \E j \in 1..Len(result.errors) : result.errors[j].line = i

\* a malformed line is followed by a value line, and that value is in the
\* returned document next to the error entry
C1_ValueParsedAfterMalformedLine ==
    /\ Parsed
    /\ result.errors # <<>>
    /\ \E i \in 1..Len(lines) : \E j \in (i + 1)..Len(lines) :
          /\ Malformed(lines[i])
          /\ value_pattern(Strip(lines[j])).match
          /\ \E k \in DOMAIN result.keys :
                value_pattern(Strip(lines[j])).group1 \in DOMAIN result.keys[k].values

\* C9: when the parser reads a line [-KEY_PATH], KEY_PATH is appended to the
\* document's deleted keys, the key map gets no new entry and the current key
\* context stays as it was.
C9_DeleteKeyLineOnlyRecordsDeletion ==
    [][(/\ pc = "loop"
        /\ line_number' = line_number + 1
        /\ delete_key_pattern(Strip(lines[line_number + 1])).match)
       => /\ result'.deleted_keys =
                 Append(result.deleted_keys,
                        delete_key_pattern(Strip(lines[line_number + 1])).group1)
          /\ DOMAIN result'.keys = DOMAIN result.keys
          /\ current_key' = current_key]_vars

(***************************************************************************)
(* Properties of repeated key lines (SpecMerge).                           *)
(***************************************************************************)
\* the rule of the grammar a line falls under
IsKeyLine(raw_line) ==
    LET line == Strip(raw_line)
    IN  /\ line # <<>>
        /\ ~StartsWith(line, <<";">>)
        /\ ~StartsWith(line, VersionPrefix)
        /\ key_pattern(line).match

IsDefaultLine(raw_line) ==
    LET line == Strip(raw_line)
    IN  /\ line # <<>>
        /\ ~StartsWith(line, <<";">>)
        /\ ~StartsWith(line, VersionPrefix)
        /\ ~key_pattern(line).match
        /\ ~delete_key_pattern(line).match
        /\ default_value_pattern(line).match

IsValueLine(raw_line) ==
    LET line == Strip(raw_line)
    IN  /\ line # <<>>
        /\ ~StartsWith(line, <<";">>)
        /\ ~StartsWith(line, VersionPrefix)
        /\ ~key_pattern(line).match
        /\ ~delete_key_pattern(line).match
        /\ ~default_value_pattern(line).match
        /\ value_pattern(line).match

KeyOfLine(i) == key_pattern(Strip(lines[i])).group1
NameOfLine(i) == value_pattern(Strip(lines[i])).group1

\* the value a value line declares, the value a default line declares
ValueOfLine(i) ==
    IF value_pattern(Strip(lines[i])).group2 = <<"-">> THEN Value("DELETE", PyNone)
    ELSE _parse_value(value_pattern(Strip(lines[i])).group2)

DefaultOfLine(i) == _parse_value(default_value_pattern(Strip(lines[i])).group1)

Last(S) == CHOOSE x \in S : \A y \in S : y <= x

\* the key whose section line i is in: the key of the last key line above it
Section(i) ==
    LET above == {j \in 1..(i - 1) : IsKeyLine(lines[j])}
    IN  IF above = {} THEN None ELSE Some(KeyOfLine(Last(above)))

\* the lines that set the value name, the default value, in a section of key_path
Setters(key_path, name) ==
    {j \in 1..Len(lines) :
        IsValueLine(lines[j]) /\ NameOfLine(j) = name /\ Section(j) = Some(key_path)}

DefaultSetters(key_path) ==
    {j \in 1..Len(lines) : IsDefaultLine(lines[j]) /\ Section(j) = Some(key_path)}

ValueNames == {NameOfLine(j) : j \in {i \in 1..Len(lines) : IsValueLine(lines[i])}}

\* C13: when a line [KEY_PATH] occurs once or more in a text, the document
\* holds a single entry for the path; the entry holds, for every name set in
\* any section of the path, the value of the last line that sets it, and the
\* default value of the last line that sets it: values of earlier sections
\* are kept, a value set again replaces the earlier one, and opening the key
\* again clears nothing.
C13_RepeatedKeyLinesMerge ==
    Parsed =>
        \A i \in 1..Len(lines) :
            IsKeyLine(lines[i]) =>
                LET key_path == KeyOfLine(i)
                IN  /\ key_path \in DOMAIN result.keys
                    /\ Cardinality({j \in 1..Len(result.key_order) :
                                       result.key_order[j] = key_path}) = 1
                    /\ DOMAIN result.keys[key_path].values =
                           {n \in ValueNames : Setters(key_path, n) # {}}
                    /\ \A n \in DOMAIN result.keys[key_path].values :
                           result.keys[key_path].values[n] =
                               ValueOfLine(Last(Setters(key_path, n)))
                    /\ result.keys[key_path].default_value =
                           IF DefaultSetters(key_path) = {} THEN None
                           ELSE Some(DefaultOfLine(Last(DefaultSetters(key_path))))

\* a key is opened, a value set, the key opened again and the value set to
\* something else: the document holds the later value
C13_ReopenedKeyReplacesValue ==
    /\ Parsed
    /\ Len(lines) = 4
    /\ IsKeyLine(lines[1]) /\ IsKeyLine(lines[3]) /\ KeyOfLine(1) = KeyOfLine(3)
    /\ IsValueLine(lines[2]) /\ IsValueLine(lines[4]) /\ NameOfLine(2) = NameOfLine(4)
    /\ ValueOfLine(2) # ValueOfLine(4)
    /\ result.key_order = <<KeyOfLine(1)>>
    /\ result.keys[KeyOfLine(1)].values[NameOfLine(4)] = ValueOfLine(4)

\* a key is opened, a value set, another key opened and the first opened
\* again: the value of the first section is still there
C13_ReopenedKeyKeepsValue ==
    /\ Parsed
    /\ Len(lines) = 4
    /\ IsKeyLine(lines[1]) /\ IsKeyLine(lines[3]) /\ IsKeyLine(lines[4])
    /\ KeyOfLine(1) = KeyOfLine(4) /\ KeyOfLine(1) # KeyOfLine(3)
    /\ IsValueLine(lines[2])
    /\ Len(result.key_order) = 2
    /\ result.keys[KeyOfLine(1)].values[NameOfLine(2)] = ValueOfLine(2)

(***************************************************************************)
(* Properties of one malformed line (SpecParse).                           *)
(***************************************************************************)
\* line i is inside a key section: a line [KEY_PATH] that is not a key
\* deletion is above it
InKeySection(i) ==
    \E j \in 1..(i - 1) :
        IsKeyLine(lines[j]) /\ ~delete_key_pattern(Strip(lines[j])).match

\* the text has one malformed line, line i, inside a key section, and its
\* other lines are valid: every value line is inside a key section
OneMalformedLine(i) ==
    /\ Malformed(lines[i])
    /\ InKeySection(i)
    /\ \A j \in 1..Len(lines) :
          /\ Malformed(lines[j]) => j = i
          /\ (IsValueLine(lines[j]) \/ IsDefaultLine(lines[j])) => InKeySection(j)

C18_SameTextSameDocument ==
    \A i \in 1..Len(calls) : \A j \in 1..Len(calls) :
        calls[i].text = calls[j].text => calls[i].document = calls[j].document

\* a text is parsed, another text is parsed, the first is parsed again: the
\* first and the third document are equal, the second is another one
C18_SameTextAfterAnother ==
    /\ Len(calls) = 3
    /\ calls[1].text = calls[3].text
    /\ calls[1].text # calls[2].text
    /\ calls[1].document = calls[3].document
    /\ calls[1].document # calls[2].document
    /\ calls[1].document.keys # <<>>

(***************************************************************************)
(* Properties of invalid numbers (SpecParse).                              *)
(***************************************************************************)
\* a right-hand side dword: or qword: whose digits are not hexadecimal
BadNumber(raw) ==
    LET value_str == Strip(raw)
        digits == From(value_str, 6)
    IN  /\ StartsWith(value_str, DwordPrefix) \/ StartsWith(value_str, QwordPrefix)
        /\ digits = <<>> \/ \E i \in 1..Len(digits) : ~IsHexDigit(digits[i])

BadNumberLine(i) ==
    IsValueLine(lines[i]) /\ BadNumber(value_pattern(Strip(lines[i])).group2)

\* the values of the document that the last line setting them gives a
\* dword: or qword: with invalid digits
BadNumberValues ==
    {<<k, n>> \in UNION {{k} \X DOMAIN result.keys[k].values : k \in DOMAIN result.keys} :
        BadNumberLine(Last(Setters(k, n)))}

\* C20: a dword: or qword: right-hand side whose digits are not valid
\* hexadecimal is parsed into a value tagged UNKNOWN with an error note and
\* the number 0; the line leaves no entry in the error list and every other
\* value of the document is the value its line declares.
C20_BadNumberIsUnknown ==
    Parsed =>
        /\ \A kn \in BadNumberValues :
              /\ result.keys[kn[1]].values[kn[2]].type = "UNKNOWN"
              /\ result.keys[kn[1]].values[kn[2]].error # None
              /\ result.keys[kn[1]].values[kn[2]].data = PyInt(0)
        /\ \A k \in DOMAIN result.keys : \A n \in DOMAIN result.keys[k].values :
              <<k, n>> \notin BadNumberValues =>
                  result.keys[k].values[n] = ValueOfLine(Last(Setters(k, n)))
        /\ \A j \in 1..Len(result.errors) :
              ~(BadNumberLine(result.errors[j].line) /\ Section(result.errors[j].line) # None)

\* C20 as far as the code has it: the value keeps the tag of its prefix,
\* REG_DWORD or REG_QWORD, with an error note and the number 0
C20_BadNumberKeepsItsTag ==
    Parsed =>
        /\ \A kn \in BadNumberValues :
              /\ result.keys[kn[1]].values[kn[2]].type =
                     (IF StartsWith(Strip(value_pattern(
                                 Strip(lines[Last(Setters(kn[1], kn[2]))])).group2),
                                    DwordPrefix)
                      THEN "REG_DWORD" ELSE "REG_QWORD")
              /\ result.keys[kn[1]].values[kn[2]].error # None
              /\ result.keys[kn[1]].values[kn[2]].data = PyInt(0)
        /\ \A k \in DOMAIN result.keys : \A n \in DOMAIN result.keys[k].values :
              <<k, n>> \notin BadNumberValues =>
                  result.keys[k].values[n] = ValueOfLine(Last(Setters(k, n)))
        /\ \A j \in 1..Len(result.errors) :
              ~(BadNumberLine(result.errors[j].line) /\ Section(result.errors[j].line) # None)


(***************************************************************************)
(***************************************************************************)
(* Properties of value lines outside a key section (SpecParse).            *)
(***************************************************************************)
\* a value line or default-value line that no line [KEY_PATH] stands above
OrphanLine(i) ==
    (IsValueLine(lines[i]) \/ IsDefaultLine(lines[i])) /\ ~InKeySection(i)

\* the document of the text with its orphan lines blanked, the line numbers kept
WithoutOrphans ==
    ParseFold([result |-> EmptyResult, current_key |-> None, line_number |-> 0],
              [i \in 1..Len(lines) |-> IF OrphanLine(i) THEN <<>> ELSE lines[i]]).result

\* C21: value lines read while no line [KEY_PATH] has opened a key context
\* are silently ignored: they add no value to any key, create no key entry
\* and add no entry to the error list, so that the document is that of the
\* text without them.
C21_OrphanLinesAreIgnored ==
    Parsed => result = WithoutOrphans

\* C21 as far as the code has it, for the texts whose orphan lines have no
\* bracket line above them: the lines add no value and no key entry, and
\* each of them leaves an error entry that names its line
C21_OrphanLinesAreLogged ==
    (Parsed /\ \A i \in 1..Len(lines) : OrphanLine(i) => Section(i) = None) =>
        /\ result.keys = WithoutOrphans.keys
        /\ result.key_order = WithoutOrphans.key_order
        /\ result.deleted_keys = WithoutOrphans.deleted_keys
        /\ result.version = WithoutOrphans.version
        /\ \A i \in 1..Len(lines) :
              OrphanLine(i) =>
                  \E j \in 1..Len(result.errors) :
                      result.errors[j] = [line |-> i, text |-> Strip(lines[i])]

(***************************************************************************)
(* Properties of the version header (SpecParse).                           *)
(***************************************************************************)
\* the lines of the text that start with the words of the header
HeaderLines ==
    {i \in 1..Len(lines) :
        /\ Strip(lines[i]) # <<>>
        /\ ~StartsWith(Strip(lines[i]), <<";">>)
        /\ StartsWith(Strip(lines[i]), VersionPrefix)}

First(S) == CHOOSE x \in S : \A y \in S : x <= y

\* C22: the version header of the document is the first line of the text
\* that starts with Windows Registry Editor; no later line changes it.
C22_FirstHeaderLineWins ==
    Parsed =>
        result.version = IF HeaderLines = {} THEN None
                         ELSE Some(Strip(lines[First(HeaderLines)]))

\* C22 as the code has it: the version header is the last such line
C22_LastHeaderLineWins ==
    Parsed =>
        result.version = IF HeaderLines = {} THEN None
                         ELSE Some(Strip(lines[Last(HeaderLines)]))

(***************************************************************************)
(* Properties of check_file_status (Spec).                                 *)
(***************************************************************************)
Done == pc = "done"

KnownRoot(key_path) == _parse_key_path(key_path).root # None

\* what the live registry answered for a key of a known root
LiveAnswer(key_path) == live[LiveKey(key_path)]

ValueStatuses == {"match", "different", "missing", "correctly_deleted",
                  "should_not_exist"}

\* the value map the report must hold for a key that is not found
AllMissing(key_data, values) ==
    /\ \A n \in DOMAIN key_data.values :
          /\ n \in DOMAIN values
          /\ values[n] = [status |-> "missing", expected |-> key_data.values[n],
                          actual |-> None, error |-> None]
    /\ key_data.default_value # None =>
          /\ DefaultName \in DOMAIN values
          /\ values[DefaultName] =
                 [status |-> "missing", expected |-> key_data.default_value[1],
                  actual |-> None, error |-> None]

\* C2: for every key of the document whose live key is not found the report
\* has exists = FALSE and every value declared under the key, the default
\* value and each named value, is 'missing' with expected the declared value
\* and actual absent; no value of the key is read.
C2_ValuesOfMissingKeyAreMissing ==
    Done =>
        \A k \in DOMAIN result.keys :
            (KnownRoot(k) /\ LiveAnswer(k).open = "notfound") =>
                /\ status_result.keys[k].exists = FALSE
                /\ AllMissing(result.keys[k], status_result.keys[k].values)
                /\ LiveAnswer(k).reads = <<>>

\* a key declares both a default value and a value named "@default"
DefaultNameClash(key_data) ==
    key_data.default_value # None /\ DefaultName \in DOMAIN key_data.values

\* C2, for the keys that do not declare a value named "@default" next to a
\* default value
C2_ApartFromDefaultNameClash ==
    Done =>
        \A k \in DOMAIN result.keys :
            (/\ KnownRoot(k)
             /\ LiveAnswer(k).open = "notfound"
             /\ ~DefaultNameClash(result.keys[k])) =>
                /\ status_result.keys[k].exists = FALSE
                /\ AllMissing(result.keys[k], status_result.keys[k].values)
                /\ LiveAnswer(k).reads = <<>>

\* C3: a declared value of tag DELETE under a key that exists live is
\* 'correctly_deleted' when the live read of its name reports not-found and
\* 'should_not_exist' when the live read succeeds.
C3_DeleteValueClassified ==
    Done =>
        \A k \in DOMAIN result.keys :
            (KnownRoot(k) /\ LiveAnswer(k).open = "ok") =>
                \A n \in DOMAIN result.keys[k].values :
                    result.keys[k].values[n].type = "DELETE" =>
                        /\ LiveAnswer(k).reads[Some(n)].kind = "notfound" =>
                              status_result.keys[k].values[n].status = "correctly_deleted"
                        /\ LiveAnswer(k).reads[Some(n)].kind = "value" =>
                              status_result.keys[k].values[n].status = "should_not_exist"

\* C5: the overall status is 'unknown' when total_values = 0, otherwise
\* 'all_active' when matching_values = total_values, otherwise 'all_inactive'
\* when matching_values = 0, otherwise 'partial': a function of the summary.
C5_OverallStatusFromSummary ==
    Done =>
        status_result.overall_status =
            Some(IF status_result.summary.total_values = 0 THEN "unknown"
                 ELSE IF status_result.summary.matching_values
                             = status_result.summary.total_values THEN "all_active"
                 ELSE IF status_result.summary.matching_values = 0 THEN "all_inactive"
                 ELSE "partial")

\* a report of two values, one of them matching
C5_PartialReport ==
    /\ Done
    /\ status_result.summary.total_values = 2
    /\ status_result.summary.matching_values = 1
    /\ status_result.overall_status = Some("partial")

\* the key paths of the text's lines [-KEY_PATH]: the deleted-key set
DeletionLines ==
    {delete_key_pattern(Strip(lines[i])).group1 :
        i \in {j \in 1..Len(lines) : delete_key_pattern(Strip(lines[j])).match}}

\* C6: for every key path of the deleted-key set the report has an entry with
\* expected_deleted = TRUE, an empty value map and the status
\* 'should_not_exist' or 'correctly_deleted'; no value of the key is read.
C6_DeletedKeysGetEntries ==
    Done =>
        \A k \in DeletionLines :
            /\ k \in DOMAIN status_result.keys
            /\ "expected_deleted" \in DOMAIN status_result.keys[k]
            /\ status_result.keys[k].expected_deleted = TRUE
            /\ status_result.keys[k].values = <<>>
            /\ status_result.keys[k].status \in {"should_not_exist", "correctly_deleted"}

\* C8: an access error other than not-found is recorded and not re-thrown.
\* The check returns a report with an overall status; every key of the
\* document has an entry; a key whose open failed carries the error; under
\* every other key each declared value has an entry with a classification,
\* and a value whose read failed carries the error on its entry.
C8_AccessErrorsAreRecorded ==
    Done =>
        /\ status_result.error = None
        /\ status_result.overall_status # None
        /\ \A k \in DOMAIN result.keys :
              /\ k \in DOMAIN status_result.keys
              /\ (KnownRoot(k) /\ LiveAnswer(k).open = "error") =>
                    status_result.keys[k].errors # <<>>
              /\ (KnownRoot(k) /\ LiveAnswer(k).open # "error") =>
                    /\ \A n \in ReportNames(result.keys[k]) :
                          /\ n \in DOMAIN status_result.keys[k].values
                          /\ status_result.keys[k].values[n].status \in ValueStatuses
                    /\ LiveAnswer(k).open = "ok" =>
                          \A r \in ReadNames(result.keys[k]) :
                              LiveAnswer(k).reads[r].kind = "error" =>
                                  status_result.keys[k].values[
                                      IF r = None THEN DefaultName ELSE r[1]].error # None

\* C8, for the keys that do not declare a value named "@default" next to a
\* default value
C8_ApartFromDefaultNameClash ==
    Done =>
        /\ status_result.error = None
        /\ status_result.overall_status # None
        /\ \A k \in DOMAIN result.keys :
              /\ k \in DOMAIN status_result.keys
              /\ (KnownRoot(k) /\ LiveAnswer(k).open = "error") =>
                    status_result.keys[k].errors # <<>>
              /\ (KnownRoot(k) /\ LiveAnswer(k).open # "error") =>
                    /\ \A n \in ReportNames(result.keys[k]) :
                          /\ n \in DOMAIN status_result.keys[k].values
                          /\ status_result.keys[k].values[n].status \in ValueStatuses
                    /\ (LiveAnswer(k).open = "ok" /\ ~DefaultNameClash(result.keys[k])) =>
                          \A r \in ReadNames(result.keys[k]) :
                              LiveAnswer(k).reads[r].kind = "error" =>
                                  status_result.keys[k].values[
                                      IF r = None THEN DefaultName ELSE r[1]].error # None

\* C10: parse, then check: for every line [-K] of the text with K under a
\* known root the report has an entry for K with expected_deleted = TRUE,
\* 'should_not_exist' when the live key K can be opened and
\* 'correctly_deleted' when it is not found.
C10_DeletionLineIsReported ==
    Done =>
        \A k \in DeletionLines :
            KnownRoot(k) =>
                /\ k \in DOMAIN status_result.keys
                /\ "expected_deleted" \in DOMAIN status_result.keys[k]
                /\ status_result.keys[k].expected_deleted = TRUE
                /\ LiveKey(k) \in DOMAIN live
                /\ LiveAnswer(k).open = "ok" =>
                      status_result.keys[k].status = "should_not_exist"
                /\ LiveAnswer(k).open = "notfound" =>
                      status_result.keys[k].status = "correctly_deleted"

\* C19: a key of the document whose path has an unknown root is reported
\* without an exception, with exists = FALSE and with each of its declared
\* values classified 'missing', as a key of a known root that is not found.
C19_UnknownRootIsNotFound ==
    Done =>
        /\ status_result.error = None
        /\ \A k \in DOMAIN result.keys :
              ~KnownRoot(k) =>
                  /\ k \in DOMAIN status_result.keys
                  /\ status_result.keys[k].exists = FALSE
                  /\ AllMissing(result.keys[k], status_result.keys[k].values)

\* C19 as far as the code has it: the key is reported without an exception,
\* with exists = FALSE, an error note and no value at all
C19_UnknownRootHasNoValues ==
    Done =>
        /\ status_result.error = None
        /\ \A k \in DOMAIN result.keys :
              ~KnownRoot(k) =>
                  /\ k \in DOMAIN status_result.keys
                  /\ status_result.keys[k].exists = FALSE
                  /\ status_result.keys[k].values = <<>>
                  /\ status_result.keys[k].errors # <<>>


(***************************************************************************)
\* the report holds every declared value of the key, classified 'match'
AllDeclaredMatch(k) ==
    /\ \A n \in DOMAIN result.keys[k].values :
          /\ n \in DOMAIN status_result.keys[k].values
          /\ status_result.keys[k].values[n].status = "match"
          /\ status_result.keys[k].values[n].expected = result.keys[k].values[n]
    /\ result.keys[k].default_value # None =>
          /\ DefaultName \in DOMAIN status_result.keys[k].values
          /\ status_result.keys[k].values[DefaultName].status = "match"
          /\ status_result.keys[k].values[DefaultName].expected
                 = result.keys[k].default_value[1]

\* C23: the overall status is 'all_active' only if every value declared under
\* every key of the document, default and named, was classified 'match', and
\* no key of the document failed to be resolved or read.
C23_AllActiveOnlyIfAllMatch ==
    (Done /\ status_result.overall_status = Some("all_active")) =>
        \A k \in DOMAIN result.keys :
            /\ k \in DOMAIN status_result.keys
            /\ status_result.keys[k].errors = <<>>
            /\ AllDeclaredMatch(k)

\* C23 as far as the code has it: the overall status is 'all_active' only if
\* the report has a value entry and every value entry it has is 'match'
C23_AllActiveOnlyIfEntriesMatch ==
    (Done /\ status_result.overall_status = Some("all_active")) =>
        /\ \E k \in DOMAIN status_result.keys : status_result.keys[k].values # <<>>
        /\ \A k \in DOMAIN status_result.keys :
              \A n \in DOMAIN status_result.keys[k].values :
                  status_result.keys[k].values[n].status = "match"

\* C23 for the documents whose keys are all resolved and opened or not found,
\* and declare no value named "@default" next to a default value
C23_ApartFromFailedKeys ==
    (/\ Done
     /\ status_result.overall_status = Some("all_active")
     /\ \A k \in DOMAIN result.keys :
           /\ KnownRoot(k)
           /\ LiveAnswer(k).open # "error"
           /\ ~DefaultNameClash(result.keys[k])) =>
        \A k \in DOMAIN result.keys :
            /\ k \in DOMAIN status_result.keys
            /\ status_result.keys[k].errors = <<>>
            /\ AllDeclaredMatch(k)

\* the report has one entry for each declared value of the key, the entry
\* of the default value apart from those of the named values
OneEntryPerDeclaredValue(k) ==
    /\ Cardinality(DOMAIN status_result.keys[k].values) =
           Cardinality(DOMAIN result.keys[k].values)
               + (IF result.keys[k].default_value # None THEN 1 ELSE 0)
    /\ \A n \in DOMAIN result.keys[k].values :
          \E e \in DOMAIN status_result.keys[k].values :
              status_result.keys[k].values[e].expected = result.keys[k].values[n]
    /\ result.keys[k].default_value # None =>
          \E e \in DOMAIN status_result.keys[k].values :
              status_result.keys[k].values[e].expected = result.keys[k].default_value[1]

\* the declared values of the document's keys that exist live
DeclaredUnderExistingKeys ==
    UNION {{k} \X ReadNames(result.keys[k]) :
              k \in {x \in DOMAIN result.keys : KnownRoot(x) /\ LiveAnswer(x).open = "ok"}}

\* C25: for a key that exists live the report's value map has exactly one
\* entry per declared value, the default value and every named value under
\* entries of their own, also when a named value is called "@default" or
\* has the empty name; total_values counts each declared value once.
C25_OneEntryPerDeclaredValue ==
    Done =>
        /\ \A k \in DOMAIN result.keys :
              (KnownRoot(k) /\ LiveAnswer(k).open = "ok") => OneEntryPerDeclaredValue(k)
        /\ (\A k \in DOMAIN result.keys : KnownRoot(k) /\ LiveAnswer(k).open = "ok") =>
               status_result.summary.total_values = Cardinality(DeclaredUnderExistingKeys)

\* C25 for the keys that do not declare a value named "@default" next to a
\* default value; a value of the empty name has its own entry
C25_ApartFromDefaultNameClash ==
    Done =>
        /\ \A k \in DOMAIN result.keys :
              (/\ KnownRoot(k)
               /\ LiveAnswer(k).open = "ok"
               /\ ~DefaultNameClash(result.keys[k])) => OneEntryPerDeclaredValue(k)
        /\ (\A k \in DOMAIN result.keys :
                /\ KnownRoot(k)
                /\ LiveAnswer(k).open = "ok"
                /\ ~DefaultNameClash(result.keys[k])) =>
               status_result.summary.total_values = Cardinality(DeclaredUnderExistingKeys)

\* a key that exists declares a default value and a value of the empty
\* name: the report has two entries
C25_DefaultAndEmptyName ==
    /\ Done
    /\ \E k \in DOMAIN result.keys :
          /\ KnownRoot(k)
          /\ LiveAnswer(k).open = "ok"
          /\ result.keys[k].default_value # None
          /\ <<>> \in DOMAIN result.keys[k].values
          /\ Cardinality(DOMAIN status_result.keys[k].values) = 2

\* the report name of a read: the default value is reported as "@default"
ReportName(name) == IF name = None THEN DefaultName ELSE name[1]

\* the declared values of existing keys whose read failed with an error
\* other than not found
FailedReads ==
    {p \in DeclaredUnderExistingKeys : LiveAnswer(p[1]).reads[p[2]] = OtherError}

\* the entry of a value whose read failed
ReportedAsFailedRead(entry) ==
    /\ entry.status = "missing"
    /\ entry.actual = None
    /\ entry.error # None

\* the entry of a value whose read answered: a live value or not found
Classified(entry, read) ==
    /\ entry.error = None
    /\ read.kind = "value" =>
          /\ entry.status \in {"match", "different", "should_not_exist"}
          /\ entry.actual # None
          /\ entry.actual[1].data = read.data
    /\ read.kind = "notfound" =>
          /\ entry.status \in {"missing", "correctly_deleted"}
          /\ entry.actual = None

\* what the report holds for the declared values of key k when the read of
\* one of them fails: the entry of the failed read, and the entries of the
\* other values of the key
FailedReadsOfKeyAreReported(k) ==
    LET key_data == result.keys[k]
        values == status_result.keys[k].values
        reads == LiveAnswer(k).reads
    IN  \A name \in ReadNames(key_data) :
            reads[name] = OtherError =>
                /\ ReportName(name) \in DOMAIN values
                /\ ReportedAsFailedRead(values[ReportName(name)])
                /\ \A other \in ReadNames(key_data) \ {name} :
                      /\ ReportName(other) \in DOMAIN values
                      /\ IF reads[other] = OtherError
                         THEN ReportedAsFailedRead(values[ReportName(other)])
                         ELSE Classified(values[ReportName(other)], reads[other])

\* C28: when the live read of a declared value fails with an error other
\* than not found, the value's entry keeps status 'missing' with actual
\* absent and an error text, the value is counted in total_values and in
\* missing_values, and the other values of the key are read and classified.
C28_FailedReadIsReportedMissing ==
    Done =>
        /\ \A k \in DOMAIN result.keys :
              (KnownRoot(k) /\ LiveAnswer(k).open = "ok") => FailedReadsOfKeyAreReported(k)
        /\ status_result.summary.missing_values >= Cardinality(FailedReads)
        /\ status_result.summary.total_values >= Cardinality(FailedReads)

\* C28 for the documents whose keys do not declare a value named "@default"
\* next to a default value
C28_ApartFromDefaultNameClash ==
    Done =>
        /\ \A k \in DOMAIN result.keys :
              (/\ KnownRoot(k)
               /\ LiveAnswer(k).open = "ok"
               /\ ~DefaultNameClash(result.keys[k])) => FailedReadsOfKeyAreReported(k)
        /\ (\A k \in DOMAIN result.keys : ~DefaultNameClash(result.keys[k])) =>
               /\ status_result.summary.missing_values >= Cardinality(FailedReads)
               /\ status_result.summary.total_values >= Cardinality(FailedReads)

\* a key that exists declares two values: the read of the first fails with
\* an error other than not found, the second is read and matches
C28_OneReadFailsTheOtherMatches ==
    /\ Done
    /\ content = Join(<<KeyLineA, FlagDword1, DefaultSzA>>, <<NL>>)
    /\ LiveAnswer(PathA).open = "ok"
    /\ LiveAnswer(PathA).reads[Some(<<"Flag">>)] = OtherError
    /\ status_result.keys[PathA].values[<<"Flag">>].status = "missing"
    /\ status_result.keys[PathA].values[<<"Flag">>].error # None
    /\ status_result.keys[PathA].values[DefaultName].status = "match"
    /\ status_result.summary.total_values = 2
    /\ status_result.summary.missing_values = 1

\* the read of the default value fails and the value named "@default" is
\* found: the report has the one entry of the named value
C28_FailedDefaultReadIsOverwritten ==
    /\ Done
    /\ content = Join(<<KeyLineA, DefaultSzA, AtDefaultSzB>>, <<NL>>)
    /\ LiveAnswer(PathA).open = "ok"
    /\ LiveAnswer(PathA).reads[None] = OtherError
    /\ LiveAnswer(PathA).reads[Some(DefaultName)].kind = "value"
    /\ status_result.keys[PathA].values[DefaultName].error = None
    /\ status_result.summary.total_values = 1

(***************************************************************************)
(* Properties of check_file_status on an unreadable file (SpecFile).       *)
(***************************************************************************)
\* the file asked for cannot be read: parse_file raises
Unreadable == parse_file(filepath, db_instance, files).raised

\* C29: check_file_status never raises; when the file cannot be read or
\* parsed (missing file, missing embedded entry, no database instance for an
\* "embedded:" id) it returns a report with the error text in 'error' and
\* 'errors', an empty summary, an empty key map and no 'overall_status', and
\* it makes no access to the live registry.
C29_UnreadableFileGivesErrorReport ==
    /\ pc \in {"file", "parse", "loop", "parsed", "keys", "done"}
    /\ Unreadable =>
          /\ pc \in {"file", "done"}
          /\ live = <<>>
          /\ Done =>
                /\ status_result.error =
                       Some(parse_file(filepath, db_instance, files).error)
                /\ status_result.errors =
                       <<parse_file(filepath, db_instance, files).error>>
                /\ DOMAIN status_result.summary = {}
                /\ status_result.keys = <<>>
                /\ status_result.overall_status = None
    /\ (Done /\ ~Unreadable) =>
          /\ status_result.error = None
          /\ status_result.overall_status # None

\* an "embedded:" id is checked against a database without the entry
C29_MissingEmbeddedEntry ==
    /\ Done
    /\ filepath = <<EmbeddedPrefix, "2">>
    /\ db_instance # None
    /\ RegId \in DOMAIN db_instance[1]
    /\ status_result.error = Some(<<"Embedded REG ", "2", " not found">>)
    /\ status_result.overall_status = None
    /\ live = <<>>

\* an "embedded:" id is checked without a database instance
C29_MissingDatabaseInstance ==
    /\ Done
    /\ StartsWith(filepath, <<EmbeddedPrefix>>)
    /\ db_instance = None
    /\ status_result.errors = << <<"Database instance required for embedded REG files">> >>

\* a file that does not exist is checked
C29_MissingFile ==
    /\ Done
    /\ filepath = <<"b.reg">>
    /\ status_result.error # None
    /\ status_result.keys = <<>>

(***************************************************************************)
(* Properties of the backup ids (SpecBackup).                              *)
(***************************************************************************)
\* the entries of the metadata that carry the id
EntriesOf(backup_id) == {i \in DOMAIN metadata : metadata[i].id = backup_id}

\* C30: after any sequence of create_backup and delete_backup calls the
\* backup ids of the metadata are pairwise distinct, so that delete_backup
\* of an id removes exactly one entry and get_backup_info of an id gives
\* the backup that the create_backup call returning the id created.
C30_BackupIdsAreDistinct ==
    \A i, j \in DOMAIN metadata : i # j => metadata[i].id # metadata[j].id

\* get_backup_info of the id a create_backup call returned gives the backup
\* of that call, for the calls whose id is still in the metadata
C30_InfoIsOfTheCreatingCall ==
    \A c \in DOMAIN created :
        get_backup_info(metadata, created[c].id) # None =>
            get_backup_info(metadata, created[c].id)[1].reg_file = created[c].reg_file

\* a delete_backup call that finds its id removes exactly one entry
C30_DeleteRemovesOneEntry ==
    [][Len(metadata') < Len(metadata) => Len(metadata') = Len(metadata) - 1]_vars

\* two entries of one id have one timestamp: the ids of backups made in
\* different seconds are distinct
C30_DistinctAcrossSeconds ==
    \A i, j \in DOMAIN metadata :
        metadata[i].timestamp # metadata[j].timestamp => metadata[i].id # metadata[j].id

\* after delete_backup of an id no entry of the id is left
C30_DeleteRemovesEveryEntryOfTheId ==
    [][\A t \in 0..MaxClock :
          Cardinality({i \in DOMAIN metadata' : metadata'[i].id = BackupId(t)})
              < Cardinality(EntriesOf(BackupId(t)))
          => \A i \in DOMAIN metadata' : metadata'[i].id # BackupId(t)]_vars

\* two create_backup calls in one second, for two files: two entries of
\* one id
C30_TwoBackupsInOneSecond ==
    /\ Len(metadata) = 2
    /\ metadata[1].id = metadata[2].id
    /\ metadata[1].reg_file # metadata[2].reg_file
    /\ Len(created) = 2

(***************************************************************************)
(* Properties of the summary (SpecSummary).                                *)
(***************************************************************************)
\* the values of the report's checked keys that have one of the statuses
Counted(statuses) ==
    {<<k, n>> \in UNION {{k} \X DOMAIN status_result.keys[k].values :
                            k \in DOMAIN status_result.keys} :
        status_result.keys[k].values[n].status \in statuses}

C12_OtherStatusesCountAsMissing ==
    Done =>
        /\ status_result.summary.matching_values = Cardinality(Counted({"match"}))
        /\ status_result.summary.different_values = Cardinality(Counted({"different"}))
        /\ status_result.summary.missing_values =
               Cardinality(Counted({"missing", "should_not_exist", "correctly_deleted"}))

\* the keys of the document that the report has as existing
ExistingKeys == {k \in DOMAIN result.keys : status_result.keys[k].exists}

\* the value entries of the document's keys in the report
ValueEntries ==
    UNION {{k} \X DOMAIN status_result.keys[k].values : k \in DOMAIN result.keys}

\* C24: after every successful check total_keys = active_keys + missing_keys
\* is the number of keys of the document, active_keys the number of those that
\* exist, total_values = matching_values + different_values + missing_values
\* is the number of value entries of the document's keys, and the step that
\* makes the entries of the deleted keys changes none of the seven counters.
C24_CountersAreConsistent ==
    /\ [](Done =>
            /\ status_result.summary.total_keys = Cardinality(DOMAIN result.keys)
            /\ status_result.summary.total_keys =
                   status_result.summary.active_keys + status_result.summary.missing_keys
            /\ status_result.summary.active_keys = Cardinality(ExistingKeys)
            /\ status_result.summary.total_values = Cardinality(ValueEntries)
            /\ status_result.summary.total_values =
                   status_result.summary.matching_values
                       + status_result.summary.different_values
                       + status_result.summary.missing_values)
    /\ [][(pc = "keys" /\ pc' = "done") =>
              status_result'.summary = status_result.summary]_vars

\* a document of one key with a value and of a key to delete is checked: the
\* report has the entry of the deleted key and counts one key and one value
C24_DeletedKeyNextToAKey ==
    /\ Done
    /\ result.deleted_keys # <<>>
    /\ \E k \in DOMAIN status_result.keys : "expected_deleted" \in DOMAIN status_result.keys[k]
    /\ status_result.summary.total_keys = 1
    /\ status_result.summary.active_keys = 1
    /\ status_result.summary.total_values = 1
    /\ status_result.summary.matching_values = 1

(***************************************************************************)
(* Properties of the background status check (SpecBackground).             *)
(***************************************************************************)
\* C26: the background status check terminates: for any finite set of .reg
\* files the chain of callbacks reaches a run that does not arm the timer
\* again.
C26_BackgroundCheckTerminates == <>(~timer)

\* C26 for the collections of at most 3 files
C26_UpToThreeFiles == (reg_files <= 3) => <>(~timer)

C27_FirstThreeFilesAreChecked ==
    \A f \in 1..3 : (f <= reg_files) => <>(f \in DOMAIN checked)

\* what the code does with more than 3 files: the timer stays armed and no
\* file after the third is ever checked
C27_LaterFilesAreNeverChecked ==
    [](reg_files > 3 => (timer /\ \A f \in DOMAIN checked : f <= 3))

(***************************************************************************)
(* Properties of a declared value against a live value (SpecCompare).      *)
(***************************************************************************)
\* the string a UTF-16LE byte sequence spells up to its NUL
RECURSIVE Utf16String(_)
Utf16String(bytes) ==
    IF Len(bytes) < 2 \/ (bytes[1] = 0 /\ bytes[2] = 0) THEN <<>>
    ELSE <<Chr(bytes[1] + 256 * bytes[2])>> \o Utf16String(From(bytes, 2))

\* the strings a UTF-16LE byte sequence spells up to its double NUL
RECURSIVE Utf16Strings(_)
Utf16Strings(bytes) ==
    IF Len(bytes) < 2 \/ (bytes[1] = 0 /\ bytes[2] = 0) THEN <<>>
    ELSE <<Utf16String(bytes)>>
             \o Utf16Strings(From(bytes, 2 * Len(Utf16String(bytes)) + 2))

\* the payload of a declared value as the data model types it: a string for
\* REG_SZ and REG_EXPAND_SZ, a sequence of strings for REG_MULTI_SZ
DeclaredPayload(value) ==
    IF value.type \in {"REG_SZ", "REG_EXPAND_SZ"} /\ value.data.kind = "ints"
    THEN PyStr(Utf16String(value.data.seq))
    ELSE IF value.type = "REG_MULTI_SZ" /\ value.data.kind = "ints"
    THEN PyStrs(Utf16Strings(value.data.seq))
    ELSE value.data

\* equality of two payloads under the rule of a tag
PayloadsEqual(tag, e, a) ==
    IF tag \in {"REG_SZ", "REG_EXPAND_SZ"}
    THEN e.kind = "str" /\ a.kind = "str" /\ e.seq = a.seq
    ELSE IF tag \in {"REG_DWORD", "REG_QWORD"}
    THEN e.kind = "int" /\ a.kind = "int" /\ e.int = a.int
    ELSE IF tag = "REG_BINARY"
    THEN e.kind \in {"ints", "bytes"} /\ a.kind \in {"ints", "bytes"} /\ e.seq = a.seq
    ELSE IF tag = "REG_MULTI_SZ"
    THEN e.kind = "strs" /\ a.kind = "strs" /\ e.seq = a.seq
    ELSE PyStrOf(e) = PyStrOf(a)

\* the status of a declared value that is not DELETE against the live value
\* of tag live_tag and payload live_data
Compared(declared, live_tag, live_data) ==
    IF declared.type = live_tag
       /\ PayloadsEqual(declared.type, DeclaredPayload(declared), live_data)
    THEN "match" ELSE "different"

\* C4: a declared value that is not DELETE, compared with a live value that is
\* present, is 'match' exactly when the tags are equal and the payloads are
\* equal under the tag's rule, and 'different' in every other case.
C4_MatchIffTagAndPayloadEqual ==
    Done =>
        \A k \in DOMAIN result.keys :
            (KnownRoot(k) /\ LiveAnswer(k).open = "ok") =>
                /\ \A n \in DOMAIN result.keys[k].values :
                      (/\ result.keys[k].values[n].type # "DELETE"
                       /\ LiveAnswer(k).reads[Some(n)].kind = "value") =>
                          status_result.keys[k].values[n].status =
                              Compared(result.keys[k].values[n],
                                       reg_types(LiveAnswer(k).reads[Some(n)].reg_type),
                                       LiveAnswer(k).reads[Some(n)].data)
                /\ (/\ result.keys[k].default_value # None
                    /\ ~DefaultNameClash(result.keys[k])
                    /\ LiveAnswer(k).reads[None].kind = "value") =>
                       status_result.keys[k].values[DefaultName].status =
                           Compared(result.keys[k].default_value[1], "REG_SZ",
                                    LiveAnswer(k).reads[None].data)

\* C4 for the declared values whose payload the parser has typed as the data
\* model types it
C4_ForPayloadsOfTheTagsType ==
    Done =>
        \A k \in DOMAIN result.keys :
            (KnownRoot(k) /\ LiveAnswer(k).open = "ok") =>
                \A n \in DOMAIN result.keys[k].values :
                    (/\ result.keys[k].values[n].type # "DELETE"
                     /\ DeclaredPayload(result.keys[k].values[n])
                            = result.keys[k].values[n].data
                     /\ LiveAnswer(k).reads[Some(n)].kind = "value") =>
                        status_result.keys[k].values[n].status =
                            Compared(result.keys[k].values[n],
                                     reg_types(LiveAnswer(k).reads[Some(n)].reg_type),
                                     LiveAnswer(k).reads[Some(n)].data)

\* the live read holds a value of the declared value's tag and payload
LiveHolds(declared, read) ==
    /\ declared.type # "DELETE"
    /\ read.kind = "value"
    /\ reg_types(read.reg_type) = declared.type
    /\ PayloadsEqual(declared.type, DeclaredPayload(declared), read.data)

\* every key of the document exists live and holds every declared value
AllPresentLive ==
    \A k \in DOMAIN result.keys :
        /\ KnownRoot(k)
        /\ LiveAnswer(k).open = "ok"
        /\ \A n \in DOMAIN result.keys[k].values :
              LiveHolds(result.keys[k].values[n], LiveAnswer(k).reads[Some(n)])
        /\ result.keys[k].default_value # None =>
              LiveHolds(result.keys[k].default_value[1], LiveAnswer(k).reads[None])

\* the document declares a value: total_values is not 0
DeclaresValue ==
    \E k \in DOMAIN result.keys :
        result.keys[k].values # <<>> \/ result.keys[k].default_value # None

\* every value status is 'match', the counters agree, the file is active
AllActive ==
    /\ \A k \in DOMAIN status_result.keys :
          \A n \in DOMAIN status_result.keys[k].values :
              status_result.keys[k].values[n].status = "match"
    /\ status_result.summary.matching_values = status_result.summary.total_values
    /\ status_result.overall_status = Some("all_active")

\* C11: when every key of the document exists live and the live registry
\* holds, for every declared default value and named value (none of them
\* DELETE), a value with the same tag and the same payload, then every value
\* status is 'match', matching_values = total_values and the overall status
\* is 'all_active'. The document declares at least one value: without values
\* the overall status is 'unknown' (C5).
C11_AllPresentIsAllActive ==
    (Done /\ DeclaresValue /\ AllPresentLive) => AllActive

\* C11 for the documents whose declared payloads the parser has typed as the
\* data model types them
C11_ForPayloadsOfTheTagsType ==
    (/\ Done
     /\ DeclaresValue
     /\ AllPresentLive
     /\ \A k \in DOMAIN result.keys : \A n \in DOMAIN result.keys[k].values :
           DeclaredPayload(result.keys[k].values[n]) = result.keys[k].values[n].data)
    => AllActive

\* a declared DWORD is found live with its payload and the file is active
C11_DwordFoundLive ==
    /\ Done
    /\ AllPresentLive
    /\ \E k \in DOMAIN result.keys : \E n \in DOMAIN result.keys[k].values :
          result.keys[k].values[n].type = "REG_DWORD"
    /\ AllActive

(***************************************************************************)
(* Properties of the round trip (SpecRoundTrip).                           *)
(***************************************************************************)
SameValue(v, w) == v.type = w.type /\ PyEq(v.data, w.data)

\* the parsed document holds the values of the serialized one, tag and payload
RoundTripOf(data, parsed) ==
    \A k \in DOMAIN data.keys :
        /\ k \in DOMAIN parsed.keys
        /\ \A n \in DOMAIN data.keys[k].values :
              /\ n \in DOMAIN parsed.keys[k].values
              /\ SameValue(parsed.keys[k].values[n], data.keys[k].values[n])
        /\ data.keys[k].default_value # None =>
              /\ parsed.keys[k].default_value # None
              /\ SameValue(parsed.keys[k].default_value[1], data.keys[k].default_value[1])

\* C7: for every value tag of the data model, the text _generate_content
\* writes for a document of a single key with one value of that tag is parsed
\* by parse_content into a document whose value has the same tag and the
\* same payload.
C7_RoundTripKeepsTagAndPayload ==
    Parsed => RoundTripOf(registry_data, result)

\* the tags whose text the parser reads back: strings, numbers and byte
\* sequences of one line
ReadBack(v) ==
    \/ v.type \in {"REG_SZ", "REG_DWORD", "REG_QWORD"}
    \/ v.type = "REG_BINARY" /\ Len(v.data.seq) <= 16

\* C7 for the documents whose value is a string, a number or a byte sequence
\* of at most 16 bytes
C7_RoundTripOfOneLineValues ==
    (/\ Parsed
     /\ \A k \in DOMAIN registry_data.keys :
           /\ \A n \in DOMAIN registry_data.keys[k].values :
                 ReadBack(registry_data.keys[k].values[n])
           /\ registry_data.keys[k].default_value # None =>
                 ReadBack(registry_data.keys[k].default_value[1]))
    => RoundTripOf(registry_data, result)

\* the values of the serialized document that have the tag
ValuesOfTag(tag) ==
    {<<k, n>> \in UNION {{k} \X DOMAIN registry_data.keys[k].values :
                            k \in DOMAIN registry_data.keys} :
        registry_data.keys[k].values[n].type = tag}

\* C15: a hex: value the serializer writes over several lines with a trailing
\* backslash is accumulated by the parser: the parsed REG_BINARY payload is
\* the sequence of the bytes of all the lines in order, and the continuation
\* lines leave no parse error; a value of 20 bytes is read back as the same
\* 20 bytes.
C15_ContinuationLinesAreAccumulated ==
    Parsed =>
        \A kn \in ValuesOfTag("REG_BINARY") :
            /\ kn[1] \in DOMAIN result.keys
            /\ kn[2] \in DOMAIN result.keys[kn[1]].values
            /\ result.keys[kn[1]].values[kn[2]].type = "REG_BINARY"
            /\ result.keys[kn[1]].values[kn[2]].data.seq
                   = registry_data.keys[kn[1]].values[kn[2]].data.seq
            /\ result.errors = <<>>

\* C15 for the values of at most 16 bytes, which the serializer writes on
\* one line
C15_ValuesOfOneLine ==
    Parsed =>
        \A kn \in ValuesOfTag("REG_BINARY") :
            Len(registry_data.keys[kn[1]].values[kn[2]].data.seq) <= 16 =>
                /\ kn[1] \in DOMAIN result.keys
                /\ kn[2] \in DOMAIN result.keys[kn[1]].values
                /\ result.keys[kn[1]].values[kn[2]].type = "REG_BINARY"
                /\ result.keys[kn[1]].values[kn[2]].data.seq
                       = registry_data.keys[kn[1]].values[kn[2]].data.seq
                /\ result.errors = <<>>

\* the UTF-16LE bytes of a sequence of strings: a NUL pair after each string
\* and a final NUL pair
RECURSIVE Utf16Bytes(_)
Utf16Bytes(strs) ==
    IF strs = <<>> THEN <<0, 0>>
    ELSE Flatten([i \in 1..Len(Head(strs)) |->
                     <<Ord(Head(strs)[i]) % 256, Ord(Head(strs)[i]) \div 256>>])
            \o <<0, 0>> \o Utf16Bytes(Tail(strs))

\* the line "name"=hex(7):b1,b2,... of the bytes
MultiSzLine(name, bytes) ==
    <<Q>> \o name \o <<Q, "=", "h", "e", "x", "(", "7", ")", ":">>
        \o Join([i \in 1..Len(bytes) |-> FormatHex(bytes[i], 2)], <<",">>)

\* the text has the hex(7) line of every REG_MULTI_SZ value of the document
MultiSzWritten ==
    \A kn \in ValuesOfTag("REG_MULTI_SZ") :
        \E i \in 1..Len(splitlines(content)) :
            splitlines(content)[i] =
                MultiSzLine(kn[2],
                            Utf16Bytes(registry_data.keys[kn[1]].values[kn[2]].data.seq))

\* the parsed document has the strings of every REG_MULTI_SZ value
MultiSzReadBack ==
    \A kn \in ValuesOfTag("REG_MULTI_SZ") :
        /\ kn[1] \in DOMAIN result.keys
        /\ kn[2] \in DOMAIN result.keys[kn[1]].values
        /\ result.keys[kn[1]].values[kn[2]].type = "REG_MULTI_SZ"
        /\ result.keys[kn[1]].values[kn[2]].data
               = registry_data.keys[kn[1]].values[kn[2]].data

\* C16: a REG_MULTI_SZ value given as a sequence of strings is written as a
\* hex(7): value of UTF-16LE bytes with a NUL pair after each string and a
\* final NUL pair, and parsing the text yields a REG_MULTI_SZ value whose
\* payload is the same sequence of strings.
C16_MultiSzRoundTrip ==
    Parsed => (MultiSzWritten /\ MultiSzReadBack)

\* C16 as far as the code has it: the text is as claimed, and the parsed
\* value has the tag and, as its payload, the bytes of the text undecoded
C16_MultiSzReadBackAsBytes ==
    Parsed =>
        /\ MultiSzWritten
        /\ \A kn \in ValuesOfTag("REG_MULTI_SZ") :
              /\ result.keys[kn[1]].values[kn[2]].type = "REG_MULTI_SZ"
              /\ result.keys[kn[1]].values[kn[2]].data =
                     PyInts(Utf16Bytes(registry_data.keys[kn[1]].values[kn[2]].data.seq))

\* the text is written
Written == pc # "create"

\* C17: the serializer writes a value whose tag is DELETE as the line
\* "name"=- and every key path of the document's deleted keys as a line
\* [-KEY_PATH].
C17_DeletionsAreWritten ==
    Written =>
        /\ \A kn \in ValuesOfTag("DELETE") :
              \E i \in 1..Len(splitlines(content)) :
                  splitlines(content)[i] = <<Q>> \o kn[2] \o <<Q, "=", "-">>
        /\ \A j \in 1..Len(registry_data.deleted_keys) :
              \E i \in 1..Len(splitlines(content)) :
                  splitlines(content)[i] =
                      <<"[", "-">> \o registry_data.deleted_keys[j] \o <<"]">>

\* C17 as far as the code has it: the deleted keys are written as claimed,
\* and a value whose tag is DELETE is written as the string "None"
C17_DeleteTagWrittenAsString ==
    Written =>
        /\ \A kn \in ValuesOfTag("DELETE") :
              \E i \in 1..Len(splitlines(content)) :
                  splitlines(content)[i] =
                      <<Q>> \o kn[2] \o <<Q, "=", Q, "None", Q>>
        /\ \A j \in 1..Len(registry_data.deleted_keys) :
              \E i \in 1..Len(splitlines(content)) :
                  splitlines(content)[i] =
                      <<"[", "-">> \o registry_data.deleted_keys[j] \o <<"]">>

====
